---- MODULE Spec2Model ----
(***************************************************************************)
(* QSF (QUIC Stream File): the writer (QsfWriter.write), the wire codec    *)
(* (Varint, encodeFrame / decodeFrame, the manifest serializer) and the    *)
(* read pipeline (bytesToQRecEvt -> parseManifestEvt ->                    *)
(* bindConfigsToStreams -> event filter) with the per-stream byte          *)
(* channels, their backpressure and cancellation.                          *)
(***************************************************************************)
EXTENDS Integers, Sequences, FiniteSets, TLC

(***************************************************************************)
(* Bounds of the model.                                                    *)
(***************************************************************************)
MaxEntries == 2
MaxChunks == 2
MaxHWM == 2
MaxStreamIds == 3
MaxPad == 2
MaxPayload == 3
MaxSlots == 3

(***************************************************************************)
(* Program constants.                                                      *)
(***************************************************************************)
STREAM_HEADER == 1
STREAM_DATA == 2
STREAM_TRAILER == 3
MANIFEST_ENTRY == 4
INDEX == 5
FOOTER == 6

(***************************************************************************)
(* Generic helpers on byte sequences.                                      *)
(***************************************************************************)
RECURSIVE Flatten(_)
Flatten(ss) == IF ss = <<>> THEN <<>> ELSE Head(ss) \o Flatten(Tail(ss))

RECURSIVE SumBytes(_)
SumBytes(bs) == IF bs = <<>> THEN 0 ELSE Head(bs) + SumBytes(Tail(bs))

Slice(buf, from, to) ==
  IF to < from THEN <<>> ELSE [k \in 1..(to - from + 1) |-> buf[from + k - 1]]

\* buf[offset] of a Uint8Array, 0-based; a read past the end is `undefined`,
\* which the bit operators of the callers coerce to 0.
ByteAt(buf, offset) == IF offset + 1 <= Len(buf) THEN buf[offset + 1] ELSE 0

(***************************************************************************)
(* Varint (RFC 9000 section 16).                                           *)
(***************************************************************************)
\* Fault variant of Varint.toBytes: the width boundaries are off by one.
VarintToBytesOffByOne(v) ==
  IF v <= 64 THEN <<v>>
  ELSE IF v <= 16384 THEN <<64 + (v \div 256), v % 256>>
  ELSE IF v <= 1073741824
    THEN <<128 + (v \div 16777216), (v \div 65536) % 256, (v \div 256) % 256, v % 256>>
  ELSE <<192, 0, 0, 0, v \div 16777216, (v \div 65536) % 256, (v \div 256) % 256, v % 256>>

VarintToBytes(v) ==
  IF v < 64 THEN <<v>>
  ELSE IF v < 16384 THEN <<64 + (v \div 256), v % 256>>
  ELSE IF v < 1073741824
    THEN <<128 + (v \div 16777216), (v \div 65536) % 256, (v \div 256) % 256, v % 256>>
  ELSE <<192, 0, 0, 0, v \div 16777216, (v \div 65536) % 256, (v \div 256) % 256, v % 256>>

VarintWidth(first) == <<1, 2, 4, 8>>[(first \div 64) + 1]

\* value.toString(16): the hex digits of the value, most significant first.
RECURSIVE HexDigits(_)
HexDigits(v) == IF v < 16 THEN <<v>> ELSE HexDigits(v \div 16) \o <<v % 16>>

\* Number("0x..."): the value of a sequence of hex digits.
RECURSIVE HexValue(_)
HexValue(ds) ==
  IF ds = <<>> THEN 0 ELSE HexValue(SubSeq(ds, 1, Len(ds) - 1)) * 16 + ds[Len(ds)]

\* Varint.toObject: the width tag and the hex text of the value.
VarintToObject(v) ==
  [f |-> <<"1B", "2B", "", "4B", "", "", "", "8B">>[Len(VarintToBytes(v))], v |-> HexDigits(v)]

\* Varint.fromObject reads only the `v` member.
VarintFromObject(obj) == HexValue(obj.v)

\* Number(obj.v) is NaN for a text that is no number (a character of `v`
\* that is no hex digit is a value above 15): Varint.fromObject throws.
VarintFromObjectThrows(obj) == \E k \in 1..Len(obj.v) : obj.v[k] > 15

\* Varint.fromBytes(buf, offset): an out-of-bounds DataView (4 and 8 byte
\* forms) throws; the 1 and 2 byte forms read missing bytes as 0.  The 8 byte
\* form is modelled up to 2^31 - 1 (the integer range of the checker); larger
\* values are reported like the code's RangeError.
VarintFromBytes(buf, offset) ==
  LET first == ByteAt(buf, offset)
      prefix == first \div 64
  IN CASE prefix = 0 -> [ok |-> TRUE, value |-> first % 64, bytesRead |-> 1]
       [] prefix = 1 ->
            [ok |-> TRUE, value |-> (first % 64) * 256 + ByteAt(buf, offset + 1), bytesRead |-> 2]
       [] prefix = 2 ->
            IF offset + 4 > Len(buf) THEN [ok |-> FALSE, value |-> 0, bytesRead |-> 0]
            ELSE [ok |-> TRUE,
                  value |-> (first % 64) * 16777216 + ByteAt(buf, offset + 1) * 65536
                            + ByteAt(buf, offset + 2) * 256 + ByteAt(buf, offset + 3),
                  bytesRead |-> 4]
       [] OTHER ->
            IF offset + 8 > Len(buf) THEN [ok |-> FALSE, value |-> 0, bytesRead |-> 0]
            ELSE IF (first % 64) + ByteAt(buf, offset + 1) + ByteAt(buf, offset + 2)
                    + ByteAt(buf, offset + 3) > 0 \/ ByteAt(buf, offset + 4) >= 128
              THEN [ok |-> FALSE, value |-> 0, bytesRead |-> 0]
            ELSE [ok |-> TRUE,
                  value |-> ByteAt(buf, offset + 4) * 16777216 + ByteAt(buf, offset + 5) * 65536
                            + ByteAt(buf, offset + 6) * 256 + ByteAt(buf, offset + 7),
                  bytesRead |-> 8]

(***************************************************************************)
(* Frame codec.                                                            *)
(***************************************************************************)
encodeFrame(frame) ==
  VarintToBytes(frame.type) \o VarintToBytes(frame.streamId)
    \o VarintToBytes(Len(frame.payload)) \o frame.payload

\* Fault variant of decodeFrame: bytesConsumed counts the header only.
decodeFrameHeaderOnly(buf, offset) ==
  LET t == VarintFromBytes(buf, offset)
      s == VarintFromBytes(buf, offset + t.bytesRead)
      l == VarintFromBytes(buf, offset + t.bytesRead + s.bytesRead)
      o == offset + t.bytesRead + s.bytesRead + l.bytesRead
  IN IF ~(t.ok /\ s.ok /\ l.ok) THEN [ok |-> FALSE]
     ELSE [ok |-> TRUE,
           frame |-> [type |-> t.value, streamId |-> s.value,
                      payload |-> Slice(buf, o + 1, IF o + l.value <= Len(buf)
                                                     THEN o + l.value ELSE Len(buf))],
           bytesConsumed |-> t.bytesRead + s.bytesRead + l.bytesRead]

decodeFrame(buf, offset) ==
  LET t == VarintFromBytes(buf, offset)
      s == VarintFromBytes(buf, offset + t.bytesRead)
      l == VarintFromBytes(buf, offset + t.bytesRead + s.bytesRead)
      o == offset + t.bytesRead + s.bytesRead + l.bytesRead
  IN IF ~(t.ok /\ s.ok /\ l.ok) THEN [ok |-> FALSE]
     ELSE [ok |-> TRUE,
           frame |-> [type |-> t.value, streamId |-> s.value,
                      payload |-> Slice(buf, o + 1, IF o + l.value <= Len(buf)
                                                     THEN o + l.value ELSE Len(buf))],
           bytesConsumed |-> t.bytesRead + s.bytesRead + l.bytesRead + l.value]

RECURSIVE iterFramesFrom(_, _)
iterFramesFrom(buf, offset) ==
  IF offset >= Len(buf) THEN <<>>
  ELSE LET d == decodeFrame(buf, offset)
       IN IF ~d.ok THEN <<>>
          ELSE <<[frame |-> d.frame, offset |-> offset]>>
                 \o iterFramesFrom(buf, offset + d.bytesConsumed)

\* Fault variant of iterFrames: the generator returns after its first frame.
iterFramesFirstOnly(buf) ==
  IF iterFramesFrom(buf, 0) = <<>> THEN <<>> ELSE <<iterFramesFrom(buf, 0)[1]>>

iterFrames(buf) == iterFramesFrom(buf, 0)

(***************************************************************************)
(* Manifest records and the serializer (QsfEnde).  A record is written as  *)
(* a tagged, length-prefixed byte string standing for the JSON text;       *)
(* decode rejects every byte string that is not such an encoding.  The     *)
(* empty object is the JSON text "{}".                                     *)
(***************************************************************************)
TagConfig == 99
TagResult == 114
FilterTypes == <<"CID.config", "ZStr.config", "TestEncrypt.config",
                "CID.result", "ZStr.result", "TestEncrypt.result">>
FormatTags == <<"1B", "2B", "4B", "8B">>

IndexOf(seq, x) == IF \E k \in 1..Len(seq) : seq[k] = x
                   THEN CHOOSE k \in 1..Len(seq) : seq[k] = x ELSE 0

EncodeFilterList(fs) == <<Len(fs)>> \o Flatten([k \in 1..Len(fs) |->
                           <<IndexOf(FilterTypes, fs[k].type), fs[k].arg>>])

EndeEncode(value) ==
  CASE value.type = "stream.config" ->
         <<TagConfig, IndexOf(FormatTags, value.streamId.f), Len(value.streamId.v)>> \o value.streamId.v
           \o <<value.combineId>> \o EncodeFilterList(value.filters)
    [] value.type = "stream.result" ->
         <<TagResult, IndexOf(FormatTags, value.streamId.f), Len(value.streamId.v)>> \o value.streamId.v
           \o VarintToBytes(value.offset) \o VarintToBytes(value.length)
           \o EncodeFilterList(value.filterResult)
    [] OTHER -> <<123, 125>>

\* The filter list starting at 0-based offset o must fill buf to its end.
DecodeFilterList(buf, o) ==
  LET n == ByteAt(buf, o)
  IN IF o + 1 > Len(buf) \/ Len(buf) # o + 1 + 2 * n
        \/ \E k \in 1..n : ByteAt(buf, o + 2 * k - 1) \notin 1..Len(FilterTypes)
     THEN [ok |-> FALSE, list |-> <<>>]
     ELSE [ok |-> TRUE,
           list |-> [k \in 1..n |-> [type |-> FilterTypes[ByteAt(buf, o + 2 * k - 1)],
                                     arg |-> ByteAt(buf, o + 2 * k)]]]

EndeDecode(buf) ==
  IF buf = <<123, 125>> THEN [ok |-> TRUE, value |-> [type |-> "empty"]]
  ELSE IF Len(buf) < 3 \/ ByteAt(buf, 0) \notin {TagConfig, TagResult}
          \/ ByteAt(buf, 1) \notin 1..Len(FormatTags)
    THEN [ok |-> FALSE]
  ELSE
    LET n == ByteAt(buf, 2)
        o1 == 3 + n
        digits == Slice(buf, 4, o1)
        sidObj == [f |-> FormatTags[ByteAt(buf, 1)], v |-> digits]
    IN IF n = 0 \/ o1 > Len(buf) THEN [ok |-> FALSE]
       ELSE IF ByteAt(buf, 0) = TagConfig
         THEN LET fl == DecodeFilterList(buf, o1 + 1)
              IN IF ~fl.ok THEN [ok |-> FALSE]
                 ELSE [ok |-> TRUE,
                       value |-> [type |-> "stream.config", streamId |-> sidObj,
                                  combineId |-> ByteAt(buf, o1), filters |-> fl.list]]
       ELSE LET off == VarintFromBytes(buf, o1)
                len == VarintFromBytes(buf, o1 + off.bytesRead)
                fl == DecodeFilterList(buf, o1 + off.bytesRead + len.bytesRead)
            IN IF ~(off.ok /\ len.ok /\ fl.ok) THEN [ok |-> FALSE]
               ELSE [ok |-> TRUE,
                     value |-> [type |-> "stream.result", streamId |-> sidObj,
                                offset |-> off.value, length |-> len.value,
                                filterResult |-> fl.list]]

isStreamConfigRecord(x) == x.type = "stream.config"
isStreamResultRecord(x) == x.type = "stream.result"

(***************************************************************************)
(* Encoders.  CID passes the bytes through and hashes them; ZStr emits the *)
(* compressed stream (a header byte, then the input) when it is flushed;   *)
(* TestEncrypt turns every chunk into IV, ciphertext and tag.              *)
(***************************************************************************)
ZStrMagic == 120
TestKey == 7
IVs == {1, 2}

Cid(bytes) == (SumBytes(bytes) + 1) % 251

Encrypt(chunk, iv) ==
  <<iv>> \o [k \in 1..Len(chunk) |-> (chunk[k] + TestKey + iv) % 256]
    \o <<(SumBytes(chunk) + TestKey) % 256>>

EncodeStage(kind, chunks, iv) ==
  CASE kind = "CID" -> chunks
    [] kind = "ZStr" -> << <<ZStrMagic>> \o Flatten(chunks) >>
    [] OTHER -> [j \in 1..Len(chunks) |-> Encrypt(chunks[j], iv + j - 1)]

RECURSIVE EncodePipe(_, _, _)
EncodePipe(encoders, chunks, iv) ==
  IF encoders = <<>> THEN chunks
  ELSE EncodePipe(Tail(encoders), EncodeStage(Head(encoders), chunks, iv), iv)

EncoderConfig(kind) ==
  [type |-> kind \o ".config", arg |-> IF kind = "TestEncrypt" THEN TestKey ELSE IF kind = "ZStr" THEN 1 ELSE 0]

\* result() of the k-th encoder; the CID is taken over the bytes that
\* reached that encoder.
EncoderResult(encoders, k, chunks, iv) ==
  [type |-> encoders[k] \o ".result",
   arg |-> IF encoders[k] = "CID"
           THEN Cid(Flatten(EncodePipe(SubSeq(encoders, 1, k - 1), chunks, iv)))
           ELSE IF encoders[k] = "ZStr" THEN 1 ELSE 0]

(***************************************************************************)
(* State.                                                                  *)
(***************************************************************************)
VARIABLES
  \* QsfWriter.write
  entries,        \* the entries argument: [chunks, encoders, combineId]
  wpc,            \* position of write() between two awaits
  ei,             \* index of the entry being processed (1-based)
  nextStreamId,   \* QsfWriter.#nextStreamId
  streamId,       \* streamId of the current entry
  iv,             \* first IV drawn by the current entry's encrypt transform
  outChunks,      \* chunks the encode pipeline has still to deliver
  value,          \* chunk returned by the last reader.read()
  offset,         \* bytes written to the sink so far
  dataOffset,
  dataLength,
  filterResult,
  results,        \* WriteResult[]
  sink,           \* bytes received by the sink
  sinkClosed,
  encCalls        \* calls made on the current entry's encoders, in order

wvars == <<entries, wpc, ei, nextStreamId, streamId, iv, outChunks, value, offset,
           dataOffset, dataLength, filterResult, results, sink, sinkClosed, encCalls>>

VARIABLES
  rstate,         \* "off" (no reader yet), "run", "closed", "errored", "cancelled"
  highWaterMark,  \* opts.highWaterMark
  decoders,       \* factories of the fold: built-ins, then opts.decoders
  input,          \* chunks the byte source has still to deliver
  inputCancelled, \* cancel() has reached the byte source
  pending,        \* ByteReader.#pending
  srcClosed,      \* bytesToQRecEvt has called ctrl.close()
  srcErrored,     \* a pull() of bytesToQRecEvt has rejected
  fed,            \* all the bytes of the byte source handed to QsfReader
  items,          \* items bytesToQRecEvt has enqueued so far
  s1,             \* item queued between bytesToQRecEvt and parseManifestEvt
  s2,             \* item queued between parseManifestEvt and the binder
  s3,             \* item queued between the binder and the event filter
  waiting,        \* binder: streamId -> {config, entries}
  writables,      \* binder: streamId -> channel
  chans,          \* the readable/writable pairs opened by the binder
  bpc,            \* binder: "idle", or "write" inside a channel's write()
  bchan,          \* channel of the write() in progress
  outerReading,   \* a read() of the consumer is pending on the outer reader
  events,         \* events delivered to the consumer of the outer reader
  detectCalls     \* binder: the detect() calls made so far, in order

rvars == <<rstate, highWaterMark, decoders, input, inputCancelled, pending, srcClosed, srcErrored,
           fed, items, s1, s2, s3, waiting, writables, chans, bpc, bchan, outerReading, events, detectCalls>>

VARIABLES
  call,           \* a call of the wire codec: the operation and its arguments
  ret             \* what the call returned

VARIABLES
  slots,          \* CIDCollector.#slots: per slot the state of its cidPromise
  flushes,        \* number of slot encoders that have flushed so far
  colResult,      \* the promise of a CIDCollector.result() call
  colMembers      \* the promise of a CIDCollector.memberCids() call

cvars == <<call, ret, slots, flushes, colResult, colMembers>>

vars == <<wvars, rvars, cvars>>

(***************************************************************************)
(* Inputs of write(): up to MaxEntries entries, each with up to MaxChunks  *)
(* source chunks; the bytes of a source are distinct from those of every   *)
(* other source, and chunk lengths vary (1, 2, 0, 1, ... bytes).           *)
(***************************************************************************)
SourceChunk(i, j) == [k \in 1..(j % 3) |-> (16 * i + 4 * j + k) % 256]
Source(i, n) == [j \in 1..n |-> SourceChunk(i, j)]

\* Encoder pipelines of an entry: none, and the built-in and user filters in
\* the orders that put the user filter first, in the middle and last.
EncoderLists ==
  << <<>>, <<"CID">>, <<"TestEncrypt", "ZStr">>, <<"CID", "TestEncrypt", "ZStr">>,
     <<"CID", "TestEncrypt">> >>

\* Lists of entries without encoders, and single entries with encoders.
EntryLists ==
  UNION {{[i \in 1..n |-> [chunks |-> Source(i, c[i]), encoders |-> <<>>, combineId |-> 0]]
            : c \in [1..n -> 0..MaxChunks]}
         : n \in 0..MaxEntries}
  \cup {<<[chunks |-> Source(1, c), encoders |-> EncoderLists[p], combineId |-> 1]>>
            : c \in 0..MaxChunks, p \in 2..Len(EncoderLists)}

HasEncrypt(encoders) == \E k \in 1..Len(encoders) : encoders[k] = "TestEncrypt"

(***************************************************************************)
(* QsfWriter.write, one action per stretch between two awaits.             *)
(***************************************************************************)
\* One call of method op on each of the n encoders of an entry, in list order.
CallsOf(op, n) == [k \in 1..n |-> <<op, k>>]

\* Fault variant of CallsAtEntry: config() is called before encode().
CallsAtEntryConfigFirst(n) == CallsOf("config", n) \o CallsOf("encode", n)

\* Head of the loop body: encoders.map((f) => f.encode()), then
\* encoders.map((f) => f.config()).
CallsAtEntry(n) == CallsOf("encode", n) \o CallsOf("config", n)

\* `this.#encodedCid ?? ""`: what CIDEncode.result() reports before its
\* encode transform has flushed.
PlaceholderCid == 255

\* result() of the k-th encoder after the calls made so far: CIDEncode
\* reports the CID its flush stored, the placeholder before the flush.
result(encoders, k, chunks, ivv, calls) ==
  IF encoders[k] = "CID" /\ \A j \in 1..Len(calls) : calls[j] # <<"flush", k>>
  THEN [type |-> "CID.result", arg |-> PlaceholderCid]
  ELSE EncoderResult(encoders, k, chunks, ivv)

\* Fault variant of ConfigRecord: the record names the next stream id.
ConfigRecordNextId(id, entry) ==
  [type |-> "stream.config", streamId |-> VarintToObject(id + 1), combineId |-> entry.combineId,
   filters |-> [k \in 1..Len(entry.encoders) |-> EncoderConfig(entry.encoders[k])]]

ConfigRecord(id, entry) ==
  [type |-> "stream.config", streamId |-> VarintToObject(id), combineId |-> entry.combineId,
   filters |-> [k \in 1..Len(entry.encoders) |-> EncoderConfig(entry.encoders[k])]]

ResultRecord(id, off, len, fr) ==
  [type |-> "stream.result", streamId |-> VarintToObject(id), offset |-> off,
   length |-> len, filterResult |-> fr]

\* Fault variant of ManifestFrame: every manifest record travels on stream 0.
ManifestFrameOnStreamZero(record, id) ==
  encodeFrame([type |-> MANIFEST_ENTRY, streamId |-> 0, payload |-> EndeEncode(record)])

\* ManifestStream.emit: the record inside a MANIFEST_ENTRY frame.
ManifestFrame(record, id) ==
  encodeFrame([type |-> MANIFEST_ENTRY, streamId |-> id, payload |-> EndeEncode(record)])

HeaderFrame(id) == encodeFrame([type |-> STREAM_HEADER, streamId |-> id, payload |-> <<>>])
DataFrame(id, chunk) == encodeFrame([type |-> STREAM_DATA, streamId |-> id, payload |-> chunk])
\* Fault variant of TrailerFrame: the trailer goes out as one more data frame.
TrailerFrameAsData(id) ==
  encodeFrame([type |-> STREAM_DATA, streamId |-> id, payload |-> EndeEncode([type |-> "empty"])])

TrailerFrame(id) ==
  encodeFrame([type |-> STREAM_TRAILER, streamId |-> id, payload |-> EndeEncode([type |-> "empty"])])

\* Fault variant of Flush: offset is not advanced.
FlushKeepOffset(bytes) ==
  /\ sink' = sink \o bytes
  /\ offset' = offset

\* flush: write to the sink, then advance offset.
Flush(bytes) ==
  /\ sink' = sink \o bytes
  /\ offset' = offset + Len(bytes)

\* Loop head with an entry left: assign the id, create the transforms, emit
\* the stream.config record.
WConfig ==
  /\ wpc = "entry"
  /\ ei <= Len(entries)
  /\ \E v \in (IF HasEncrypt(entries[ei].encoders) THEN IVs ELSE {0}) : iv' = v
  /\ streamId' = nextStreamId
  /\ nextStreamId' = nextStreamId + 1
  /\ Flush(ManifestFrame(ConfigRecord(nextStreamId, entries[ei]), nextStreamId))
  /\ encCalls' = CallsAtEntry(Len(entries[ei].encoders))
  /\ wpc' = "header"
  /\ UNCHANGED <<entries, ei, outChunks, value, dataOffset, dataLength, filterResult,
                 results, sinkClosed>>
  /\ UNCHANGED <<rvars, cvars>>

WHeader ==
  /\ wpc = "header"
  /\ Flush(HeaderFrame(streamId))
  /\ dataOffset' = offset'
  /\ dataLength' = 0
  /\ outChunks' = EncodePipe(entries[ei].encoders, entries[ei].chunks, iv)
  /\ wpc' = "read"
  /\ UNCHANGED <<entries, encCalls, ei, nextStreamId, streamId, iv, value, filterResult, results, sinkClosed>>
  /\ UNCHANGED <<rvars, cvars>>

\* reader.read() on the encode pipeline.
WRead ==
  /\ wpc = "read"
  /\ IF outChunks = <<>>
     THEN /\ wpc' = "result"
          /\ encCalls' = encCalls \o CallsOf("flush", Len(entries[ei].encoders))
          /\ UNCHANGED <<outChunks, value>>
     ELSE /\ value' = Head(outChunks)
          /\ outChunks' = Tail(outChunks)
          /\ wpc' = "data"
          /\ UNCHANGED encCalls
  /\ UNCHANGED <<entries, ei, nextStreamId, streamId, iv, offset, dataOffset, dataLength,
                 filterResult, results, sink, sinkClosed>>
  /\ UNCHANGED <<rvars, cvars>>

WData ==
  /\ wpc = "data"
  /\ Flush(DataFrame(streamId, value))
  /\ dataLength' = dataLength + Len(value)
  /\ wpc' = "read"
  /\ UNCHANGED <<entries, encCalls, ei, nextStreamId, streamId, iv, outChunks, value, dataOffset,
                 filterResult, results, sinkClosed>>
  /\ UNCHANGED <<rvars, cvars>>

\* await Promise.all(result()).
WResult ==
  /\ wpc = "result"
  /\ filterResult' = [k \in 1..Len(entries[ei].encoders) |->
                        result(entries[ei].encoders, k, entries[ei].chunks, iv, encCalls)]
  /\ encCalls' = encCalls \o CallsOf("result", Len(entries[ei].encoders))
  /\ wpc' = "trailer"
  /\ UNCHANGED <<entries, ei, nextStreamId, streamId, iv, outChunks, value, offset, dataOffset,
                 dataLength, results, sink, sinkClosed>>
  /\ UNCHANGED <<rvars, cvars>>

WTrailer ==
  /\ wpc = "trailer"
  /\ Flush(TrailerFrame(streamId))
  /\ wpc' = "record"
  /\ UNCHANGED <<entries, encCalls, ei, nextStreamId, streamId, iv, outChunks, value, dataOffset,
                 dataLength, filterResult, results, sinkClosed>>
  /\ UNCHANGED <<rvars, cvars>>

WResultRecord ==
  /\ wpc = "record"
  /\ Flush(ManifestFrame(ResultRecord(streamId, dataOffset, dataLength, filterResult), streamId))
  /\ results' = Append(results, [streamId |-> streamId, offset |-> dataOffset,
                                 length |-> dataLength, filterResult |-> filterResult])
  /\ ei' = ei + 1
  /\ wpc' = "entry"
  /\ UNCHANGED <<entries, encCalls, nextStreamId, streamId, iv, outChunks, value, dataOffset, dataLength,
                 filterResult, sinkClosed>>
  /\ UNCHANGED <<rvars, cvars>>

\* Fault variant of WClose: the sink is closed when the last entry is reached,
\* before its block is written.
WCloseBeforeLast ==
  /\ wpc = "entry"
  /\ ei >= Len(entries)
  /\ sinkClosed' = TRUE
  /\ wpc' = "done"
  /\ UNCHANGED <<entries, encCalls, ei, nextStreamId, streamId, iv, outChunks, value, offset, dataOffset,
                 dataLength, filterResult, results, sink>>
  /\ UNCHANGED <<rvars, cvars>>

WClose ==
  /\ wpc = "entry"
  /\ ei > Len(entries)
  /\ sinkClosed' = TRUE
  /\ wpc' = "done"
  /\ UNCHANGED <<entries, encCalls, ei, nextStreamId, streamId, iv, outChunks, value, offset, dataOffset,
                 dataLength, filterResult, results, sink>>
  /\ UNCHANGED <<rvars, cvars>>

\* Fault variant of WFail: the error is swallowed and write() returns the
\* results it has so far.
WFailReturns ==
  /\ wpc \in {"entry", "header", "read", "data", "result", "trailer", "record"}
  /\ wpc' = "done"
  /\ UNCHANGED <<entries, encCalls, ei, nextStreamId, streamId, iv, outChunks, value, offset, dataOffset,
                 dataLength, filterResult, results, sink, sinkClosed>>
  /\ UNCHANGED <<rvars, cvars>>

\* The source, an encoder or the sink rejects: write() rejects at this await.
WFail ==
  /\ wpc \in {"entry", "header", "read", "data", "result", "trailer", "record"}
  /\ wpc' = "failed"
  /\ UNCHANGED <<entries, encCalls, ei, nextStreamId, streamId, iv, outChunks, value, offset, dataOffset,
                 dataLength, filterResult, results, sink, sinkClosed>>
  /\ UNCHANGED <<rvars, cvars>>

WInit ==
  /\ entries \in EntryLists
  /\ wpc = "entry"
  /\ ei = 1
  /\ nextStreamId = 0
  /\ streamId = 0
  /\ iv = 0
  /\ outChunks = <<>>
  /\ value = <<>>
  /\ offset = 0
  /\ dataOffset = 0
  /\ dataLength = 0
  /\ filterResult = <<>>
  /\ results = <<>>
  /\ sink = <<>>
  /\ sinkClosed = FALSE
  /\ encCalls = <<>>

WNext == WConfig \/ WHeader \/ WRead \/ WData \/ WResult \/ WTrailer \/ WResultRecord
           \/ WClose \/ WFail

\* A further write() on the same QsfWriter, with new entries and a new sink,
\* once the previous call has settled: the locals of write() start afresh, the
\* field #nextStreamId keeps its value.
WAgain ==
  /\ wpc \in {"done", "failed"}
  /\ \E e \in EntryLists :
       /\ nextStreamId + Len(e) <= MaxStreamIds
       /\ entries' = e
  /\ wpc' = "entry"
  /\ ei' = 1
  /\ offset' = 0
  /\ results' = <<>>
  /\ sink' = <<>>
  /\ sinkClosed' = FALSE
  /\ streamId' = 0 /\ iv' = 0 /\ outChunks' = <<>> /\ value' = <<>>
  /\ dataOffset' = 0 /\ dataLength' = 0 /\ filterResult' = <<>>
  /\ encCalls' = <<>>
  /\ UNCHANGED nextStreamId
  /\ UNCHANGED <<rvars, cvars>>

(***************************************************************************)
(* Read side: helpers.                                                     *)
(***************************************************************************)
EmptyMap == [k \in {} |-> 0]
MapPut(m, k, v) == [x \in (DOMAIN m) \cup {k} |-> IF x = k THEN v ELSE m[x]]
MapDel(m, k) == [x \in (DOMAIN m) \ {k} |-> m[x]]

RECURSIVE Chunked(_, _)
Chunked(bytes, size) ==
  IF bytes = <<>> THEN <<>>
  ELSE IF Len(bytes) <= size THEN <<bytes>>
  ELSE <<SubSeq(bytes, 1, size)>> \o Chunked(SubSeq(bytes, size + 1, Len(bytes)), size)

\* Ways the byte source splits the container: byte by byte (every frame
\* header and payload is cut), or as one buffer.
ChunkSizes(bytes) == {1, Len(bytes) + 1}

(***************************************************************************)
(* Stage 1: bytesToQRecEvt and ByteReader.                                 *)
(***************************************************************************)
\* Let(v, F) is LET x == v IN F(x), with v computed once.
Let(v, F(_)) == CHOOSE y \in {F(x) : x \in {v}} : TRUE

\* Fault variant of readBytes: a chunk read while #pending is too short
\* replaces #pending instead of being appended to it.
RECURSIVE readBytesNoStitch(_, _)
readBytesNoStitch(br, n) ==
  IF n = 0 THEN [st |-> "ok", bytes |-> <<>>, br |-> br]
  ELSE IF Len(br.pending) < n
    THEN IF br.input = <<>>
         THEN [st |-> IF br.pending = <<>> THEN "null" ELSE "throw", bytes |-> <<>>, br |-> br]
         ELSE Let([pending |-> Head(br.input), input |-> Tail(br.input)],
                  LAMBDA merged : readBytesNoStitch(merged, n))
  ELSE [st |-> "ok", bytes |-> SubSeq(br.pending, 1, n),
        br |-> [pending |-> SubSeq(br.pending, n + 1, Len(br.pending)), input |-> br.input]]

\* ByteReader.readBytes(n) on br = [pending, input]: chunks are merged into
\* #pending while it is shorter than n.  "ok" with the bytes, "null" at a
\* clean end, "throw" at an unexpected end.
RECURSIVE readBytes(_, _)
readBytes(br, n) ==
  IF n = 0 THEN [st |-> "ok", bytes |-> <<>>, br |-> br]
  ELSE IF Len(br.pending) < n
    THEN IF br.input = <<>>
         THEN [st |-> IF br.pending = <<>> THEN "null" ELSE "throw", bytes |-> <<>>, br |-> br]
         ELSE Let([pending |-> br.pending \o Head(br.input), input |-> Tail(br.input)],
                  LAMBDA merged : readBytes(merged, n))
  ELSE [st |-> "ok", bytes |-> SubSeq(br.pending, 1, n),
        br |-> [pending |-> SubSeq(br.pending, n + 1, Len(br.pending)), input |-> br.input]]

readVarint(br) ==
  Let(readBytes(br, 1), LAMBDA first :
    IF first.st # "ok" THEN [st |-> first.st, value |-> 0, br |-> first.br]
    ELSE IF VarintWidth(first.bytes[1]) = 1
      THEN [st |-> "ok", value |-> VarintFromBytes(first.bytes, 0).value, br |-> first.br]
    ELSE Let(readBytes(first.br, VarintWidth(first.bytes[1]) - 1), LAMBDA rest :
           IF rest.st # "ok" THEN [st |-> "throw", value |-> 0, br |-> rest.br]
           ELSE Let(VarintFromBytes(first.bytes \o rest.bytes, 0), LAMBDA v :
                  IF ~v.ok THEN [st |-> "throw", value |-> 0, br |-> rest.br]
                  ELSE [st |-> "ok", value |-> v.value, br |-> rest.br])))

\* One pull(): "item" with the frame, "close" at a clean end, "error".
pull(br) ==
  Let(readVarint(br), LAMBDA typeV :
    IF typeV.st = "null" THEN [st |-> "close", br |-> typeV.br]
    ELSE IF typeV.st = "throw" THEN [st |-> "error", br |-> typeV.br]
    ELSE Let(readVarint(typeV.br), LAMBDA streamIdV :
      IF streamIdV.st # "ok" THEN [st |-> "error", br |-> streamIdV.br]
      ELSE Let(readVarint(streamIdV.br), LAMBDA lengthV :
        IF lengthV.st # "ok" THEN [st |-> "error", br |-> lengthV.br]
        ELSE Let(readBytes(lengthV.br, lengthV.value), LAMBDA payload :
          IF payload.st # "ok" THEN [st |-> "error", br |-> payload.br]
          ELSE [st |-> "item", br |-> payload.br,
                evt |-> [type |-> "qrec.frame",
                         header |-> [type |-> typeV.value,
                                     streamId |-> streamIdV.value,
                                     length |-> lengthV.value],
                         data |-> payload.bytes]]))))

isQRecEvt(e) == e.type = "qrec.frame"

\* pull() runs when the stage's queue is empty.  A rejected pull() errors
\* the stage; the pipes behind it first finish the writes of the items they
\* have already taken, so the error travels behind those items.
Pull ==
  /\ rstate = "run"
  /\ ~srcClosed
  /\ ~srcErrored
  /\ s1 = <<>>
  /\ LET r == pull([pending |-> pending, input |-> input])
     IN /\ pending' = r.br.pending
        /\ input' = r.br.input
        /\ s1' = IF r.st = "item" THEN <<r.evt>> ELSE <<>>
        /\ items' = IF r.st = "item" THEN Append(items, r.evt) ELSE items
        /\ srcClosed' = (r.st = "close")
        /\ srcErrored' = (r.st = "error")
  /\ UNCHANGED <<wvars, cvars, fed, rstate, highWaterMark, decoders, inputCancelled, s2, s3,
                 waiting, writables, chans, bpc, bchan, outerReading, events, detectCalls>>

(***************************************************************************)
(* Stage 2: parseManifestEvt.  The transform runs when the binder asks for *)
(* the next item.  The body of a MANIFEST_ENTRY frame is drained by        *)
(* stream2uint8array whatever the outcome.                                 *)
(***************************************************************************)
parseManifestEvt(evt) ==
  IF ~isQRecEvt(evt) \/ evt.header.type # MANIFEST_ENTRY THEN evt
  ELSE LET record == EndeDecode(evt.data)
           drained == [evt EXCEPT !.data = <<>>]
       IN IF ~record.ok THEN drained
          ELSE IF isStreamConfigRecord(record.value) \/ isStreamResultRecord(record.value)
            THEN record.value
          ELSE drained

Parse ==
  /\ rstate = "run"
  /\ s1 # <<>>
  /\ s2 = <<>>
  /\ bpc = "idle"
  /\ s2' = <<parseManifestEvt(s1[1])>>
  /\ s1' = <<>>
  /\ UNCHANGED <<wvars, cvars, srcErrored, fed, items, rstate, highWaterMark, decoders, input, inputCancelled, pending,
                 srcClosed, s3, waiting, writables, chans, bpc, bchan, outerReading, events, detectCalls>>

(***************************************************************************)
(* Resolver fold and decode pipeline.                                      *)
(***************************************************************************)
\* The config type a factory recognises.  WatchingTestEncrypt is a second
\* factory for TestEncrypt.config (a subclass that calls super.detect); an
\* instance is named after the factory that made it.
ConfigTypeOf(kind) ==
  IF kind = "WatchingTestEncrypt" THEN "TestEncrypt.config" ELSE kind \o ".config"

\* Fault variant of detect: a recognised entry is stamped even when it
\* already has an instance.
detectOverwrite(kind, filters) ==
  [k \in 1..Len(filters) |->
     IF filters[k].input.type # ConfigTypeOf(kind)
     THEN filters[k]
     ELSE [filters[k] EXCEPT !.instance = kind]]

\* detect() of the CID, ZStr and TestEncrypt factories: stamp the entries of
\* the factory's own type that no earlier factory has claimed.
detect(kind, filters) ==
  [k \in 1..Len(filters) |->
     IF filters[k].instance # "none" \/ filters[k].input.type # ConfigTypeOf(kind)
     THEN filters[k]
     ELSE [filters[k] EXCEPT !.instance = kind]]

RECURSIVE FoldResolvers(_, _)
FoldResolvers(resolvers, resolvedEntries) ==
  IF resolvers = <<>> THEN resolvedEntries
  ELSE FoldResolvers(Tail(resolvers), detect(Head(resolvers), resolvedEntries))

\* Fault variant of DetectCalls: the fold stops at the first factory that
\* finds every entry resolved.
RECURSIVE DetectCallsUntilResolved(_, _, _, _)
DetectCallsUntilResolved(resolvers, k, id, es) ==
  IF k > Len(resolvers) \/ \A j \in 1..Len(es) : es[j].instance # "none" THEN <<>>
  ELSE <<[factory |-> k, id |-> id, given |-> es, returned |-> detect(resolvers[k], es)]>>
         \o DetectCallsUntilResolved(resolvers, k + 1, id, detect(resolvers[k], es))

\* The detect() calls of the fold over the resolvers from the k-th on, for
\* the stream.config record of stream id: which factory was called, what
\* it was given and what it returned.
RECURSIVE DetectCalls(_, _, _, _)
DetectCalls(resolvers, k, id, es) ==
  IF k > Len(resolvers) THEN <<>>
  ELSE <<[factory |-> k, id |-> id, given |-> es, returned |-> detect(resolvers[k], es)]>>
         \o DetectCalls(resolvers, k + 1, id, detect(resolvers[k], es))

Reverse(seq) == [k \in 1..Len(seq) |-> seq[Len(seq) + 1 - k]]

\* buildDecodeStream: the number of pipeThrough calls made before the loop
\* ends or throws, and whether it throws for an entry without instance.
RECURSIVE PipedBeforeThrow(_)
PipedBeforeThrow(rev) ==
  IF rev = <<>> \/ Head(rev).instance = "none" THEN 0 ELSE 1 + PipedBeforeThrow(Tail(rev))

\* Fault variant of buildDecodeStream: entries without instance are skipped.
buildDecodeStreamSkipUnresolved(ch) ==
  LET rev == SelectSeq(Reverse(ch.entries), LAMBDA e : e.instance # "none")
  IN IF Reverse(ch.entries) = <<>> THEN ch
     ELSE [ch EXCEPT !.locked = (ch.locked \/ Len(rev) >= 1),
                     !.piped = IF Len(rev) >= 1 THEN Len(rev) ELSE ch.piped,
                     !.pipe = IF Len(rev) >= 1 THEN rev ELSE ch.pipe,
                     !.decoded = "ok"]

\* Fault variant of buildDecodeStream: the entries are piped in filter
\* order, f0's decoder first.
buildDecodeStreamForward(ch) ==
  LET fwd == ch.entries
      n == PipedBeforeThrow(fwd)
  IN IF fwd = <<>> THEN ch
     ELSE [ch EXCEPT !.locked = (ch.locked \/ n >= 1),
                     !.piped = IF n >= 1 THEN n ELSE ch.piped,
                     !.pipe = IF n >= 1 THEN SubSeq(fwd, 1, n) ELSE ch.pipe,
                     !.decoded = IF n = Len(fwd) THEN "ok" ELSE "unresolved",
                     !.unresolved = IF n = Len(fwd) THEN "" ELSE fwd[n + 1].input.type]

\* Fault variant of buildDecodeStream: the decoders are run on the chunks
\* without `stream` being piped into them, so `stream` is left unlocked.
buildDecodeStreamUnlocked(ch) ==
  LET rev == Reverse(ch.entries)
      n == PipedBeforeThrow(rev)
  IN IF rev = <<>> THEN ch
     ELSE [ch EXCEPT !.piped = IF n >= 1 THEN n ELSE ch.piped,
                     !.pipe = IF n >= 1 THEN SubSeq(rev, 1, n) ELSE ch.pipe,
                     !.decoded = IF n = Len(rev) THEN "ok" ELSE "unresolved",
                     !.unresolved = IF n = Len(rev) THEN "" ELSE rev[n + 1].input.type]

buildDecodeStream(ch) ==
  LET rev == Reverse(ch.entries)
      n == PipedBeforeThrow(rev)
  IN IF rev = <<>> THEN ch                       \* no entry: `stream` itself is returned
     ELSE [ch EXCEPT !.locked = (ch.locked \/ n >= 1),
                     !.piped = IF n >= 1 THEN n ELSE ch.piped,
                     !.pipe = IF n >= 1 THEN SubSeq(rev, 1, n) ELSE ch.pipe,
                     !.decoded = IF n = Len(rev) THEN "ok" ELSE "unresolved",
                     !.unresolved = IF n = Len(rev) THEN "" ELSE rev[n + 1].input.type]

Decrypt(chunk) ==
  IF Len(chunk) < 2 THEN [ok |-> FALSE, bytes |-> <<>>]
  ELSE LET body == [k \in 1..(Len(chunk) - 2) |-> (chunk[k + 1] + 512 - TestKey - chunk[1]) % 256]
       IN [ok |-> chunk[Len(chunk)] = (SumBytes(body) + TestKey) % 256, bytes |-> body]

\* decode() transform of one decoder on one chunk; `first` tells the first
\* chunk of the stream (the ZStr header).
DecodeStage(kind, chunk, first) ==
  CASE kind = "CID" -> [ok |-> TRUE, bytes |-> chunk]
    [] kind = "ZStr" ->
         IF ~first THEN [ok |-> TRUE, bytes |-> chunk]
         ELSE IF chunk # <<>> /\ chunk[1] = ZStrMagic THEN [ok |-> TRUE, bytes |-> Tail(chunk)]
         ELSE [ok |-> FALSE, bytes |-> <<>>]
    [] OTHER -> Decrypt(chunk)

\* One chunk through the stages of a pipe. `emit` tells whether a chunk
\* comes out: a DecompressionStream that inflates nothing enqueues nothing,
\* so the stages behind it see no chunk.
RECURSIVE DecodeChunk(_, _, _)
DecodeChunk(rev, chunk, first) ==
  IF rev = <<>> THEN [ok |-> TRUE, bytes |-> chunk, emit |-> TRUE]
  ELSE LET r == DecodeStage(Head(rev).instance, chunk, first)
       IN IF ~r.ok THEN [ok |-> FALSE, bytes |-> <<>>, emit |-> FALSE]
          ELSE IF Head(rev).instance = "ZStr" /\ r.bytes = <<>>
          THEN [ok |-> TRUE, bytes |-> <<>>, emit |-> FALSE]
          ELSE DecodeChunk(Tail(rev), r.bytes, first)

\* `undefined` as the expected CID of a CIDDecode.
NoCid == -1

\* CIDDecodeFactory.detect stamps `new CIDDecode()`: no expected CID.
CIDDecodeExpected == NoCid

\* CIDDecode.decode().flush: ctrl.error when an expected CID was given and
\* the CID of the bytes seen differs from it.
CIDDecodeFlushErrors(expected, bytes) == expected # NoCid /\ Cid(bytes) # expected

\* The decoders of the pipe that a chunk passes before it reaches the CID
\* decoder (an entry list holds at most one CID filter); all of them when
\* there is none.
RECURSIVE BeforeCid(_)
BeforeCid(rev) ==
  IF rev = <<>> \/ Head(rev).instance = "CID" THEN <<>>
  ELSE <<Head(rev)>> \o BeforeCid(Tail(rev))

HasCidDecoder(ch) == \E k \in 1..Len(ch.entries) : ch.entries[k].instance = "CID"

\* The flush of the pipe behind the raw stream, as the consumer's last read
\* sees it: the CID decoder's flush may error the stream.
DecodeFlush(ch) ==
  IF HasCidDecoder(ch) /\ CIDDecodeFlushErrors(CIDDecodeExpected, ch.hashed)
  THEN "error" ELSE "done"

(***************************************************************************)
(* The per-stream channel: a ReadableStream with CountQueuingStrategy      *)
(* ({highWaterMark}) fed through the WritableStream's write/close.         *)
(***************************************************************************)
NewChannel(id, resolved) ==
  [id |-> id, entries |-> resolved, queue |-> <<>>, state |-> "readable",
   cancelled |-> FALSE, closeRequested |-> FALSE,
   readyResolve |-> FALSE,      \* readyResolve is defined: a write() waits
   readPending |-> FALSE,       \* a read request waits for a chunk
   locked |-> FALSE,            \* locked by a pipeThrough of decode()
   piped |-> 0,                 \* decoders piped behind the stream
   pipe |-> <<>>,               \* the decoders piped, in the order the bytes pass them
   pipeBuf |-> <<>>,            \* chunks taken by the pipe, not yet decoded
   decoded |-> "none",          \* outcome of the last decode() call
   unresolved |-> "",
   delivered |-> <<>>,          \* chunks read from `stream` by the consumer
   decodedOut |-> <<>>,         \* chunks read from the decode() stream
   decodeError |-> FALSE,
   hashed |-> <<>>,             \* bytes the CIDDecode transform has hashed
   decodedEnd |-> "none",       \* how the decode() stream ended: "done" or "error"
   returned |-> 0,              \* decode() calls that returned a stream
   refused |-> 0]               \* calls that threw because `stream` is locked

desiredSize(ch) ==
  IF ch.state = "readable" THEN highWaterMark - Len(ch.queue) ELSE 0

\* A chunk handed to a waiting read request, or taken from the queue.
Hand(ch, chunk) ==
  IF ch.locked THEN [ch EXCEPT !.pipeBuf = Append(@, chunk)]
  ELSE [ch EXCEPT !.delivered = Append(@, chunk)]

\* Fault variant of write: a chunk that finds no room is dropped instead of
\* being queued ahead of the wait.
writeDropWhenFull(ch, chunk) ==
  IF ch.state # "readable" \/ ch.closeRequested THEN ch
  ELSE IF ch.readPending THEN [Hand(ch, chunk) EXCEPT !.readPending = FALSE]
  ELSE IF desiredSize(ch) <= 0 THEN ch
  ELSE [ch EXCEPT !.queue = Append(@, chunk)]

\* writable.write(chunk): streamCtrl.enqueue throws (and is caught) when the
\* readable is no longer open; otherwise wait when desiredSize <= 0.
write(ch, chunk) ==
  IF ch.state # "readable" \/ ch.closeRequested THEN ch
  ELSE LET enq == IF ch.readPending
                  THEN [Hand(ch, chunk) EXCEPT !.readPending = FALSE]
                  ELSE [ch EXCEPT !.queue = Append(@, chunk)]
       IN [enq EXCEPT !.readyResolve = (desiredSize(enq) <= 0)]

\* writable.close(): streamCtrl.close().
close(ch) ==
  IF ch.state # "readable" \/ ch.closeRequested THEN ch
  ELSE IF ch.queue = <<>> THEN [ch EXCEPT !.closeRequested = TRUE, !.state = "closed",
                                          !.readPending = FALSE]
  ELSE [ch EXCEPT !.closeRequested = TRUE]

\* Fault variant of read: pull() does not resolve the waiting write().
readKeepWaiting(ch) ==
  IF ch.queue # <<>>
  THEN LET got == [Hand(ch, Head(ch.queue)) EXCEPT !.queue = Tail(ch.queue)]
       IN IF got.closeRequested /\ got.queue = <<>> THEN [got EXCEPT !.state = "closed"] ELSE got
  ELSE [ch EXCEPT !.readPending = TRUE]

\* A read() on the readable: take the head of the queue or leave a read
\* request; pull() runs when the request is pending or desiredSize > 0.
read(ch) ==
  IF ch.queue # <<>>
  THEN LET got == [Hand(ch, Head(ch.queue)) EXCEPT !.queue = Tail(ch.queue)]
       IN IF got.closeRequested
          THEN IF got.queue = <<>> THEN [got EXCEPT !.state = "closed"] ELSE got
          ELSE IF desiredSize(got) > 0 THEN [got EXCEPT !.readyResolve = FALSE] ELSE got
  ELSE [ch EXCEPT !.readPending = TRUE, !.readyResolve = FALSE]

\* Fault variant of cancel: the waiting write() is not resolved.
cancelKeepWaiting(ch) ==
  [ch EXCEPT !.state = "closed", !.cancelled = TRUE, !.queue = <<>>, !.readPending = FALSE,
             !.pipeBuf = <<>>]

\* cancel() of the readable: the queue is dropped, the source's cancel()
\* resolves a waiting write().
cancel(ch) ==
  [ch EXCEPT !.state = "closed", !.cancelled = TRUE, !.queue = <<>>, !.readPending = FALSE,
             !.readyResolve = FALSE, !.pipeBuf = <<>>]

(***************************************************************************)
(* Stage 3: bindConfigsToStreams.  transform() runs on the next item when  *)
(* the previous transform has returned and the event filter has taken the  *)
(* last emitted item.                                                      *)
(***************************************************************************)
StreamFileBegin(config, c) ==
  [type |-> "stream.config", streamId |-> config.streamId, combineId |-> config.combineId,
   filters |-> config.filters, stream |-> c]

isStreamFileBegin(e) == e.type = "stream.config" /\ "stream" \in DOMAIN e
\* Fault variant of isStreamFileEnd: the guard of the earlier record layout,
\* which carried the content id in the result record itself.
isStreamFileEndWithCid(e) == isStreamResultRecord(e) /\ "cid" \in DOMAIN e

isStreamFileEnd(e) == isStreamResultRecord(e)

streamIdOf(evt) == VarintFromObject(evt.streamId)

BindConfig(evt) ==
  /\ waiting' = MapPut(waiting, VarintFromObject(evt.streamId),
                       [config |-> evt,
                        entries |-> FoldResolvers(decoders,
                                      [k \in 1..Len(evt.filters) |->
                                         [input |-> evt.filters[k], instance |-> "none"]])])
  /\ detectCalls' = detectCalls \o
       DetectCalls(decoders, 1, VarintFromObject(evt.streamId),
                   [k \in 1..Len(evt.filters) |-> [input |-> evt.filters[k], instance |-> "none"]])
  /\ UNCHANGED <<s3, writables, chans, bpc, bchan>>

\* Fault variant of BindHeader: a header without pending config opens a
\* pipe all the same.
BindHeaderOpensPipe(evt) ==
  IF evt.header.streamId \notin DOMAIN waiting
  THEN /\ s3' = <<evt>>
       /\ chans' = Append(chans, NewChannel(evt.header.streamId, <<>>))
       /\ writables' = MapPut(writables, evt.header.streamId, Len(chans) + 1)
       /\ UNCHANGED <<waiting, bpc, bchan>>
  ELSE LET p == waiting[evt.header.streamId]
       IN /\ waiting' = MapDel(waiting, evt.header.streamId)
          /\ chans' = Append(chans, NewChannel(evt.header.streamId, p.entries))
          /\ writables' = MapPut(writables, evt.header.streamId, Len(chans) + 1)
          /\ s3' = <<StreamFileBegin(p.config, Len(chans) + 1)>>
          /\ UNCHANGED <<bpc, bchan>>

BindHeader(evt) ==
  IF evt.header.streamId \notin DOMAIN waiting
  THEN /\ s3' = <<evt>>
       /\ UNCHANGED <<waiting, writables, chans, bpc, bchan>>
  ELSE LET p == waiting[evt.header.streamId]
       IN /\ waiting' = MapDel(waiting, evt.header.streamId)
          /\ chans' = Append(chans, NewChannel(evt.header.streamId, p.entries))
          /\ writables' = MapPut(writables, evt.header.streamId, Len(chans) + 1)
          /\ s3' = <<StreamFileBegin(p.config, Len(chans) + 1)>>
          /\ UNCHANGED <<bpc, bchan>>

BindData(evt) ==
  IF evt.header.streamId \in DOMAIN writables
  THEN LET c == writables[evt.header.streamId]
           w == write(chans[c], evt.data)
       IN /\ chans' = [chans EXCEPT ![c] = w]
          /\ bpc' = IF w.readyResolve THEN "write" ELSE "idle"
          /\ bchan' = IF w.readyResolve THEN c ELSE bchan
          /\ UNCHANGED <<s3, waiting, writables>>
  ELSE UNCHANGED <<s3, waiting, writables, chans, bpc, bchan>>   \* drained to devNull

\* Fault variant of BindTrailer: the writable is closed but stays in the map.
BindTrailerKeepsPipe(evt) ==
  /\ IF evt.header.streamId \in DOMAIN writables
     THEN chans' = [chans EXCEPT ![writables[evt.header.streamId]] = close(@)]
     ELSE UNCHANGED chans
  /\ UNCHANGED <<s3, waiting, writables, bpc, bchan>>

BindTrailer(evt) ==
  /\ IF evt.header.streamId \in DOMAIN writables
     THEN chans' = [chans EXCEPT ![writables[evt.header.streamId]] = close(@)]
     ELSE UNCHANGED chans
  /\ writables' = MapDel(writables, evt.header.streamId)
  /\ UNCHANGED <<s3, waiting, bpc, bchan>>

BindForward(evt) ==
  /\ s3' = <<evt>>
  /\ UNCHANGED <<waiting, writables, chans, bpc, bchan>>

\* transform() on a stream.config record whose streamId Varint.fromObject
\* rejects: the fold has run, waiting.set throws, transform() rejects and
\* the binder's TransformStream is errored; the error reaches the outer
\* reader, whose pending read rejects.
BindReject ==
  /\ rstate = "run"
  /\ s2 # <<>>
  /\ s3 = <<>>
  /\ bpc = "idle"
  /\ isStreamConfigRecord(s2[1]) /\ VarintFromObjectThrows(s2[1].streamId)
  /\ s2' = <<>>
  /\ rstate' = "errored"
  /\ outerReading' = FALSE
  /\ UNCHANGED <<wvars, cvars, srcErrored, fed, items, highWaterMark, decoders, input, inputCancelled, pending,
                 srcClosed, s1, s3, waiting, writables, chans, bpc, bchan, events, detectCalls>>

Bind ==
  /\ rstate = "run"
  /\ s2 # <<>>
  /\ s3 = <<>>
  /\ bpc = "idle"
  /\ ~(isStreamConfigRecord(s2[1]) /\ VarintFromObjectThrows(s2[1].streamId))
  /\ s2' = <<>>
  /\ LET evt == s2[1]
     IN IF isStreamConfigRecord(evt) THEN BindConfig(evt)
        ELSE IF isStreamResultRecord(evt) THEN BindForward(evt)
        ELSE IF ~isQRecEvt(evt) THEN BindForward(evt)
        ELSE IF evt.header.type = STREAM_HEADER THEN BindHeader(evt)
        ELSE IF evt.header.type = STREAM_DATA THEN BindData(evt)
        ELSE IF evt.header.type = STREAM_TRAILER THEN BindTrailer(evt)
        ELSE BindForward(evt)
  /\ isStreamConfigRecord(s2[1]) \/ UNCHANGED detectCalls
  /\ UNCHANGED <<wvars, cvars, srcErrored, fed, items, rstate, highWaterMark, decoders, input, inputCancelled, pending,
                 srcClosed, s1, outerReading, events>>

\* The write() that waited has been resolved by pull() or cancel(): pipeTo
\* ends and transform() returns.
BindResume ==
  /\ bpc = "write"
  /\ ~chans[bchan].readyResolve
  /\ bpc' = "idle"
  /\ UNCHANGED <<wvars, cvars, srcErrored, fed, items, rstate, highWaterMark, decoders, input, inputCancelled, pending,
                 srcClosed, s1, s2, s3, waiting, writables, chans, bchan, outerReading, events, detectCalls>>

(***************************************************************************)
(* Stage 4: the event filter of QsfReader, and the outer reader.           *)
(***************************************************************************)
\* Fault variant of FilterEvt: leftover frames are passed on to the consumer.
FilterEvtKeepAll ==
  /\ rstate = "run"
  /\ s3 # <<>>
  /\ outerReading
  /\ s3' = <<>>
  /\ events' = Append(events, s3[1])
  /\ outerReading' = FALSE
  /\ UNCHANGED <<wvars, cvars, srcErrored, fed, items, rstate, highWaterMark, decoders, input,
                 inputCancelled, pending, srcClosed, s1, s2, waiting, writables, chans, bpc, bchan, detectCalls>>

\* transform() runs when a read of the consumer is pending.
FilterEvt ==
  /\ rstate = "run"
  /\ s3 # <<>>
  /\ outerReading
  /\ s3' = <<>>
  /\ IF isStreamFileBegin(s3[1]) \/ isStreamFileEnd(s3[1])
     THEN /\ events' = Append(events, s3[1])
          /\ outerReading' = FALSE
     ELSE UNCHANGED <<events, outerReading>>
  /\ UNCHANGED <<wvars, cvars, srcErrored, fed, items, rstate, highWaterMark, decoders, input, inputCancelled, pending,
                 srcClosed, s1, s2, waiting, writables, chans, bpc, bchan, detectCalls>>

\* Fault variant of ReaderClose: an error of the stage ends the outer reader
\* like a close.
ReaderCloseSwallowError ==
  /\ rstate = "run"
  /\ srcClosed \/ srcErrored
  /\ s1 = <<>> /\ s2 = <<>> /\ s3 = <<>>
  /\ bpc = "idle"
  /\ rstate' = "closed"
  /\ outerReading' = FALSE
  /\ UNCHANGED <<wvars, cvars, srcErrored, fed, items, highWaterMark, decoders, input,
                 inputCancelled, pending, srcClosed, s1, s2, s3, waiting, writables, chans,
                 bpc, bchan, events, detectCalls>>

\* The end of the byte-to-frame stage, its close or its error, reaches the
\* outer reader once every item in flight has been handled.
ReaderClose ==
  /\ rstate = "run"
  /\ srcClosed \/ srcErrored
  /\ s1 = <<>> /\ s2 = <<>> /\ s3 = <<>>
  /\ bpc = "idle"
  /\ rstate' = IF srcErrored THEN "errored" ELSE "closed"
  /\ outerReading' = FALSE
  /\ UNCHANGED <<wvars, cvars, srcErrored, fed, items, highWaterMark, decoders, input, inputCancelled, pending, srcClosed,
                 s1, s2, s3, waiting, writables, chans, bpc, bchan, events, detectCalls>>

UserDecoderLists == {<<>>, <<"TestEncrypt">>}

\* QsfReader(input, opts) on the bytes of a finished write().
ReaderStart ==
  /\ wpc = "done"
  /\ rstate = "off"
  /\ rstate' = "run"
  /\ \E h \in 0..MaxHWM : highWaterMark' = h
  /\ \E u \in UserDecoderLists : decoders' = <<"CID", "ZStr">> \o u
  /\ \E size \in ChunkSizes(sink) : input' = Chunked(sink, size)
  /\ fed' = sink
  /\ UNCHANGED <<wvars, cvars, srcErrored, items, inputCancelled, pending, srcClosed, s1, s2, s3, waiting, writables,
                 chans, bpc, bchan, outerReading, events, detectCalls>>

(***************************************************************************)
(* QsfReader on bytes that are not a container as write() left it: a       *)
(* container cut short at any byte, and a container with a frame of a      *)
(* reserved or unknown type put between two of its frames.                 *)
(***************************************************************************)
\* An INDEX frame and a FOOTER frame on ids the container uses, and a frame
\* whose type code (64) is unknown and takes a two-byte varint.
ReservedFrames ==
  {[type |-> INDEX, streamId |-> 0, payload |-> <<9>>],
   [type |-> FOOTER, streamId |-> 1, payload |-> <<>>],
   [type |-> 64, streamId |-> 0, payload |-> <<8, 9>>]}

\* 0-based offsets at which a frame of buf starts, and the end of buf.
FrameBoundaries(buf) ==
  {iterFrames(buf)[k].offset : k \in 1..Len(iterFrames(buf))} \cup {Len(buf)}

InsertAt(buf, off, bytes) ==
  SubSeq(buf, 1, off) \o bytes \o SubSeq(buf, off + 1, Len(buf))

\* The unknown frame ahead of the container, for cuts inside its type varint.
LongTypeFrame == encodeFrame([type |-> 64, streamId |-> 0, payload |-> <<8, 9>>])

InputVariants(container) ==
  {SubSeq(container, 1, k) : k \in 0..Len(container)}
    \cup {InsertAt(container, b, encodeFrame(f)) :
            b \in FrameBoundaries(container), f \in ReservedFrames}
    \cup {SubSeq(LongTypeFrame \o container, 1, k) : k \in 1..Len(LongTypeFrame)}

\* The byte source delivers one byte at a time, three bytes at a time (the
\* cuts fall inside varints and payloads), or everything as one chunk.
InputChunkSizes(bytes) == {1, 3, Len(bytes) + 1}

ReaderStartOn ==
  /\ wpc = "done"
  /\ rstate = "off"
  /\ rstate' = "run"
  /\ \E h \in 1..MaxHWM : highWaterMark' = h
  /\ decoders' = <<"CID", "ZStr">>
  /\ \E bytes \in InputVariants(sink) :
       /\ fed' = bytes
       /\ \E size \in InputChunkSizes(bytes) : input' = Chunked(bytes, size)
  /\ UNCHANGED <<wvars, cvars, srcErrored, items, inputCancelled, pending, srcClosed, s1, s2, s3,
                 waiting, writables, chans, bpc, bchan, outerReading, events, detectCalls>>

(***************************************************************************)
(* The consumer.                                                           *)
(***************************************************************************)
OuterRead ==
  /\ rstate = "run"
  /\ ~outerReading
  /\ outerReading' = TRUE
  /\ UNCHANGED <<wvars, cvars, srcErrored, fed, items, rstate, highWaterMark, decoders, input, inputCancelled, pending,
                 srcClosed, s1, s2, s3, waiting, writables, chans, bpc, bchan, events, detectCalls>>

\* cancel() on the outer reader: every stage is cancelled in turn, items in
\* flight are dropped.  No stage has a cancel hook: the byte source is not
\* cancelled and the binder's maps and channels stay as they are.
OuterCancel ==
  /\ rstate = "run"
  /\ rstate' = "cancelled"
  /\ s1' = <<>> /\ s2' = <<>> /\ s3' = <<>>
  /\ outerReading' = FALSE
  /\ UNCHANGED <<wvars, cvars, srcErrored, fed, items, highWaterMark, decoders, input, inputCancelled, pending, srcClosed,
                 waiting, writables, chans, bpc, bchan, events, detectCalls>>

Known(c) == \E k \in 1..Len(events) : isStreamFileBegin(events[k]) /\ events[k].stream = c

\* A read on begin.stream by the consumer, or by the pipe of decode() when
\* it has room for a chunk.
ChanRead(c) ==
  /\ Known(c)
  /\ chans[c].state = "readable"
  /\ ~chans[c].readPending
  /\ chans[c].locked => Len(chans[c].pipeBuf) < chans[c].piped
  /\ chans' = [chans EXCEPT ![c] = read(@)]
  /\ UNCHANGED <<wvars, cvars, srcErrored, fed, items, rstate, highWaterMark, decoders, input, inputCancelled, pending,
                 srcClosed, s1, s2, s3, waiting, writables, bpc, bchan, outerReading, events, detectCalls>>

\* Fault variant of ChanCancel: the cancel hook clears the whole map.
ChanCancelClearAll(c) ==
  /\ Known(c)
  /\ chans[c].state = "readable"
  /\ chans[c].locked => chans[c].decoded = "ok"
  /\ chans' = [chans EXCEPT ![c] = cancel(@)]
  /\ writables' = EmptyMap
  /\ UNCHANGED <<wvars, cvars, srcErrored, fed, items, rstate, highWaterMark, decoders, input, inputCancelled, pending,
                 srcClosed, s1, s2, s3, waiting, bpc, bchan, outerReading, events, detectCalls>>

\* Fault variant of ChanCancel: the cancel hook leaves the writable in the map.
ChanCancelKeepsPipe(c) ==
  /\ Known(c)
  /\ chans[c].state = "readable"
  /\ chans[c].locked => chans[c].decoded = "ok"
  /\ chans' = [chans EXCEPT ![c] = cancel(@)]
  /\ UNCHANGED <<wvars, cvars, srcErrored, fed, items, rstate, highWaterMark, decoders, input,
                 inputCancelled, pending, srcClosed, s1, s2, s3, waiting, writables, bpc, bchan,
                 outerReading, events, detectCalls>>

\* begin.stream.cancel(), or cancel() of the stream decode() returned.
ChanCancel(c) ==
  /\ Known(c)
  /\ chans[c].state = "readable"
  /\ chans[c].locked => chans[c].decoded = "ok"
  /\ chans' = [chans EXCEPT ![c] = cancel(@)]
  /\ writables' = MapDel(writables, chans[c].id)
  /\ UNCHANGED <<wvars, cvars, srcErrored, fed, items, rstate, highWaterMark, decoders, input, inputCancelled, pending,
                 srcClosed, s1, s2, s3, waiting, bpc, bchan, outerReading, events, detectCalls>>

\* begin.decode(), called while `stream` is not locked.
Decode(c) ==
  /\ Known(c)
  /\ ~chans[c].readPending
  /\ ~chans[c].locked
  /\ chans' = [chans EXCEPT ![c] = buildDecodeStream(@)]
  /\ UNCHANGED <<wvars, cvars, srcErrored, fed, items, rstate, highWaterMark, decoders, input, inputCancelled, pending,
                 srcClosed, s1, s2, s3, waiting, writables, bpc, bchan, outerReading, events, detectCalls>>

\* A read on the stream decode() returned, when it is not `stream` itself.
DecodedRead(c) ==
  /\ Known(c)
  /\ chans[c].decoded = "ok"
  /\ chans[c].piped >= 1
  /\ chans[c].pipeBuf # <<>>
  /\ ~chans[c].decodeError
  /\ LET r == DecodeChunk(chans[c].pipe, Head(chans[c].pipeBuf),
                          chans[c].decodedOut = <<>>)
         h == DecodeChunk(BeforeCid(chans[c].pipe), Head(chans[c].pipeBuf),
                          chans[c].decodedOut = <<>>)
     IN chans' = [chans EXCEPT ![c].pipeBuf = Tail(@),
                               ![c].decodedOut = IF r.ok /\ r.emit THEN Append(@, r.bytes) ELSE @,
                               ![c].hashed = IF HasCidDecoder(chans[c]) /\ h.ok
                                             THEN @ \o h.bytes ELSE @,
                               ![c].decodeError = ~r.ok]
  /\ UNCHANGED <<wvars, cvars, srcErrored, fed, items, rstate, highWaterMark, decoders, input, inputCancelled, pending,
                 srcClosed, s1, s2, s3, waiting, writables, bpc, bchan, outerReading, events, detectCalls>>

\* The read on the decode() stream that follows its last chunk: the raw
\* stream has closed, the pipe has passed everything on and flushes.
DecodedEnd(c) ==
  /\ Known(c)
  /\ chans[c].decoded = "ok"
  /\ chans[c].piped >= 1
  /\ chans[c].state = "closed" /\ ~chans[c].cancelled
  /\ chans[c].pipeBuf = <<>>
  /\ ~chans[c].decodeError
  /\ chans[c].decodedEnd = "none"
  /\ chans' = [chans EXCEPT ![c].decodedEnd = DecodeFlush(chans[c])]
  /\ UNCHANGED <<wvars, cvars, srcErrored, fed, items, rstate, highWaterMark, decoders, input,
                 inputCancelled, pending, srcClosed, s1, s2, s3, waiting, writables, bpc, bchan,
                 outerReading, events, detectCalls>>

(***************************************************************************)
(* Specification.                                                          *)
(***************************************************************************)
RInit ==
  /\ rstate = "off"
  /\ highWaterMark = 0
  /\ decoders = <<>>
  /\ input = <<>>
  /\ inputCancelled = FALSE
  /\ pending = <<>>
  /\ srcClosed = FALSE
  /\ srcErrored = FALSE
  /\ fed = <<>>
  /\ items = <<>>
  /\ s1 = <<>> /\ s2 = <<>> /\ s3 = <<>>
  /\ waiting = EmptyMap
  /\ writables = EmptyMap
  /\ chans = <<>>
  /\ bpc = "idle"
  /\ bchan = 0
  /\ outerReading = FALSE
  /\ events = <<>>
  /\ detectCalls = <<>>

\* new CIDCollector(): no slot, no call made.
ColInit ==
  /\ slots = <<>>
  /\ flushes = 0
  /\ colResult = [st |-> "none"]
  /\ colMembers = [st |-> "none"]

Init ==
  /\ WInit
  /\ RInit
  /\ ColInit
  /\ call = [op |-> "none"]
  /\ ret = [op |-> "none"]

Writer == WNext

Next ==
  \/ Writer
  \/ ReaderStart
  \/ Pull
  \/ Parse
  \/ Bind
  \/ BindResume
  \/ FilterEvt
  \/ ReaderClose
  \/ OuterRead
  \/ OuterCancel
  \/ \E c \in 1..Len(chans) : ChanRead(c)
  \/ \E c \in 1..Len(chans) : ChanCancel(c)
  \/ \E c \in 1..Len(chans) : Decode(c)
  \/ \E c \in 1..Len(chans) : DecodedRead(c)
  \/ \E c \in 1..Len(chans) : DecodedEnd(c)

Spec == Init /\ [][Next]_vars

\* One write() call on its own: the reader is never started.
SpecWriter == Init /\ [][Writer]_vars

\* Several write() calls, one after the other, on one QsfWriter.
WriterCalls == Writer \/ WAgain
SpecWriterCalls == Init /\ [][WriterCalls]_vars

\* The stages of the pipeline are promise jobs: one that can run does run.
\* The consumer keeps reading the outer reader, every stream it has begun
\* and not cancelled, and every stream decode() gave it.
Fairness ==
  /\ WF_vars(Pull) /\ WF_vars(Parse) /\ WF_vars(Bind) /\ WF_vars(BindResume)
  /\ WF_vars(FilterEvt) /\ WF_vars(ReaderClose)
  /\ WF_vars(OuterRead)
  /\ \A c \in 1..MaxEntries : WF_vars(ChanRead(c)) /\ WF_vars(DecodedRead(c))

\* For the progress properties: the container of MaxEntries entries of
\* MaxChunks chunks each written without encoders, and the container of one
\* entry written through the CID encoder.
LiveEntryLists ==
  {[i \in 1..MaxEntries |-> [chunks |-> Source(i, MaxChunks), encoders |-> <<>>, combineId |-> 0]],
   <<[chunks |-> Source(1, MaxChunks), encoders |-> <<"CID">>, combineId |-> 1]>>}

LiveInit == Init /\ entries \in LiveEntryLists

SpecLive == LiveInit /\ [][Next]_vars /\ Fairness

\* QsfReader with a consumer that never cancels the outer reader and, for
\* each begin stream, keeps reading it until it cancels it or it ends.
WakeNext ==
  \/ Writer
  \/ ReaderStart
  \/ Pull
  \/ Parse
  \/ Bind
  \/ BindResume
  \/ FilterEvt
  \/ ReaderClose
  \/ OuterRead
  \/ \E c \in 1..Len(chans) : ChanRead(c)
  \/ \E c \in 1..Len(chans) : ChanCancel(c)

WakeFairness ==
  /\ WF_vars(Pull) /\ WF_vars(Parse) /\ WF_vars(Bind) /\ WF_vars(BindResume)
  /\ WF_vars(FilterEvt) /\ WF_vars(ReaderClose)
  /\ WF_vars(OuterRead)
  /\ \A c \in 1..MaxEntries : WF_vars(ChanRead(c))

SpecWake == LiveInit /\ [][WakeNext]_vars /\ WakeFairness

\* A consumer that calls decode() more than once on a begin event and goes
\* on using `stream` behind a decode(): the calls that return a stream and
\* the calls that throw are counted on the channel.
MaxCalls == 2

\* begin.decode(): buildDecodeStream(readable, entries).  Without entries
\* it returns `stream`; otherwise pipeThrough throws when `stream` is
\* locked, by a pipe or by the reader of a pending read.
DecodeCall(c) ==
  /\ Known(c)
  /\ chans[c].returned + chans[c].refused < MaxCalls
  /\ LET ch == chans[c]
         piped == buildDecodeStream(ch)
     IN chans' = [chans EXCEPT ![c] =
          IF ch.entries = <<>> THEN [ch EXCEPT !.returned = @ + 1]
          ELSE IF ch.locked \/ ch.readPending THEN [ch EXCEPT !.refused = @ + 1]
          ELSE [piped EXCEPT !.returned = IF piped.decoded = "ok" THEN @ + 1 ELSE @]]
  /\ UNCHANGED <<wvars, cvars, srcErrored, fed, items, rstate, highWaterMark, decoders, input,
                 inputCancelled, pending, srcClosed, s1, s2, s3, waiting, writables, bpc, bchan,
                 outerReading, events, detectCalls>>

\* stream.getReader() or stream.cancel() on a `stream` that decode() has
\* piped into its decoders: the call throws, the stream is as it was.
LockedCall(c) ==
  /\ Known(c)
  /\ chans[c].locked
  /\ chans[c].returned + chans[c].refused < MaxCalls
  /\ chans' = [chans EXCEPT ![c].refused = @ + 1]
  /\ UNCHANGED <<wvars, cvars, srcErrored, fed, items, rstate, highWaterMark, decoders, input,
                 inputCancelled, pending, srcClosed, s1, s2, s3, waiting, writables, bpc, bchan,
                 outerReading, events, detectCalls>>

ShareNext ==
  \/ Writer
  \/ ReaderStart
  \/ Pull
  \/ Parse
  \/ Bind
  \/ BindResume
  \/ FilterEvt
  \/ ReaderClose
  \/ OuterRead
  \/ \E c \in 1..Len(chans) : ChanRead(c)
  \/ \E c \in 1..Len(chans) : ChanCancel(c)
  \/ \E c \in 1..Len(chans) : DecodeCall(c)
  \/ \E c \in 1..Len(chans) : LockedCall(c)
  \/ \E c \in 1..Len(chans) : DecodedRead(c)
  \/ \E c \in 1..Len(chans) : DecodedEnd(c)

SpecShare == LiveInit /\ [][ShareNext]_vars

\* QsfReader on cut and extended containers, with a consumer that reads the
\* outer reader and every begin stream.
InputEntryLists ==
  {<<[chunks |-> Source(1, MaxChunks), encoders |-> <<>>, combineId |-> 0]>>}

InputInit == Init /\ entries \in InputEntryLists

InputNext ==
  \/ Writer
  \/ ReaderStartOn
  \/ Pull
  \/ Parse
  \/ Bind
  \/ BindResume
  \/ FilterEvt
  \/ ReaderClose
  \/ OuterRead
  \/ \E c \in 1..Len(chans) : ChanRead(c)

InputFairness ==
  /\ WF_vars(Pull) /\ WF_vars(Parse) /\ WF_vars(Bind) /\ WF_vars(BindResume)
  /\ WF_vars(FilterEvt) /\ WF_vars(ReaderClose)
  /\ WF_vars(OuterRead)
  /\ \A c \in 1..MaxEntries : WF_vars(ChanRead(c))

SpecInput == InputInit /\ [][InputNext]_vars /\ InputFairness

(***************************************************************************)
(* QsfReader on a container in which one payload byte of a STREAM_DATA     *)
(* frame was changed after write(): the frames are intact, the bytes of    *)
(* one stream are not what its CID was taken over.  The consumer decodes   *)
(* every stream and reads it to its end.                                   *)
(***************************************************************************)
\* 1-based positions in buf of the payload bytes of its STREAM_DATA frames.
DataBytePositions(buf) ==
  UNION {LET f == iterFrames(buf)[k]
             n == Len(f.frame.payload)
             end == f.offset + Len(encodeFrame(f.frame))
         IN IF f.frame.type = STREAM_DATA THEN (end - n + 1)..end ELSE {}
           : k \in 1..Len(iterFrames(buf))}

Tampered(buf, pos) == [buf EXCEPT ![pos] = (@ + 1) % 256]

TamperedVariants(container) ==
  {container} \cup {Tampered(container, pos) : pos \in DataBytePositions(container)}

ReaderStartTampered ==
  /\ wpc = "done"
  /\ rstate = "off"
  /\ rstate' = "run"
  /\ \E h \in 1..MaxHWM : highWaterMark' = h
  /\ decoders' = <<"CID", "ZStr">>
  /\ \E bytes \in TamperedVariants(sink) :
       /\ fed' = bytes
       /\ \E size \in ChunkSizes(bytes) : input' = Chunked(bytes, size)
  /\ UNCHANGED <<wvars, cvars, srcErrored, items, inputCancelled, pending, srcClosed, s1, s2, s3,
                 waiting, writables, chans, bpc, bchan, outerReading, events, detectCalls>>

\* One entry written through the CID encoder, alone or ahead of ZStr.
TamperEntryLists ==
  {<<[chunks |-> Source(1, c), encoders |-> e, combineId |-> 1]>>
     : c \in 1..MaxChunks, e \in {<<"CID">>, <<"CID", "ZStr">>}}

TamperInit == Init /\ entries \in TamperEntryLists

TamperNext ==
  \/ Writer
  \/ ReaderStartTampered
  \/ Pull
  \/ Parse
  \/ Bind
  \/ BindResume
  \/ FilterEvt
  \/ ReaderClose
  \/ OuterRead
  \/ \E c \in 1..Len(chans) : ChanRead(c)
  \/ \E c \in 1..Len(chans) : Decode(c)
  \/ \E c \in 1..Len(chans) : DecodedRead(c)
  \/ \E c \in 1..Len(chans) : DecodedEnd(c)

SpecTamper == TamperInit /\ [][TamperNext]_vars

(***************************************************************************)
(* CIDCollector: slots are registered with filter(), the encoder of a slot *)
(* resolves the slot's cidPromise when its stream is flushed, in whatever  *)
(* order the member streams are written; result() and memberCids() await   *)
(* the promises of the slots registered when they are called.              *)
(***************************************************************************)
\* The bytes a member stream may carry.
SlotData == {Flatten(Source(i, MaxChunks)) : i \in 1..MaxSlots}

\* CID over TextEncoder().encode(JSON.stringify(memberCids)): the text lists
\* the members in order, so the digest depends on the order.
RECURSIVE CombinedCid(_)
CombinedCid(cids) ==
  IF cids = <<>> THEN 7
  ELSE (CombinedCid(SubSeq(cids, 1, Len(cids) - 1)) * 31 + cids[Len(cids)] + 1) % 65521

\* Fault variant of MemberCids: the members in the order their encoders
\* flushed.
MemberCidsByFlush(n) ==
  LET at == {slots[k].at : k \in 1..n}
      rank(k) == Cardinality({a \in at : a <= slots[k].at})
  IN [r \in 1..n |-> slots[CHOOSE k \in 1..n : rank(k) = r].cid]

\* Promise.all(this.#slots.map((f) => f.cidPromise)) over the first n slots.
MemberCids(n) == [k \in 1..n |-> slots[k].cid]

AllFlushed(n) == \A k \in 1..n : slots[k].cid # NoCid

\* col.filter(): a new CIDEncode at the next slot.
ColFilter ==
  /\ Len(slots) < MaxSlots
  /\ slots' = Append(slots, [cid |-> NoCid, at |-> 0])
  /\ UNCHANGED <<call, ret, flushes, colResult, colMembers, wvars, rvars>>

\* The encode transform of slot k flushes: cidPromise resolves with the CID
\* of the bytes the member stream carried.
ColFlush(k) ==
  /\ k \in 1..Len(slots)
  /\ slots[k].cid = NoCid
  /\ \E d \in SlotData : slots' = [slots EXCEPT ![k] = [cid |-> Cid(d), at |-> flushes + 1]]
  /\ flushes' = flushes + 1
  /\ UNCHANGED <<call, ret, colResult, colMembers, wvars, rvars>>

\* col.result() is called: it throws without a slot, else awaits the
\* promises of the slots registered so far.
ColResult ==
  /\ colResult.st = "none"
  /\ colResult' = IF Len(slots) = 0 THEN [st |-> "rejected", awaited |-> 0]
                   ELSE [st |-> "pending", awaited |-> Len(slots)]
  /\ UNCHANGED <<call, ret, slots, flushes, colMembers, wvars, rvars>>

\* Promise.all has settled: result() returns the combined CID.
ColResultDone ==
  /\ colResult.st = "pending"
  /\ AllFlushed(colResult.awaited)
  /\ colResult' = [st |-> "resolved", awaited |-> colResult.awaited,
                    cid |-> CombinedCid(MemberCids(colResult.awaited))]
  /\ UNCHANGED <<call, ret, slots, flushes, colMembers, wvars, rvars>>

\* col.memberCids() is called.
ColMembers ==
  /\ colMembers.st = "none"
  /\ colMembers' = [st |-> "pending", awaited |-> Len(slots)]
  /\ UNCHANGED <<call, ret, slots, flushes, colResult, wvars, rvars>>

ColMembersDone ==
  /\ colMembers.st = "pending"
  /\ AllFlushed(colMembers.awaited)
  /\ colMembers' = [st |-> "resolved", awaited |-> colMembers.awaited,
                     cids |-> MemberCids(colMembers.awaited)]
  /\ UNCHANGED <<call, ret, slots, flushes, colResult, wvars, rvars>>

CollectorInit ==
  /\ WInit /\ entries = <<>>
  /\ RInit
  /\ ColInit
  /\ call = [op |-> "none"]
  /\ ret = [op |-> "none"]

CollectorNext ==
  \/ ColFilter
  \/ \E k \in 1..MaxSlots : ColFlush(k)
  \/ ColResult
  \/ ColResultDone
  \/ ColMembers
  \/ ColMembersDone

SpecCollector == CollectorInit /\ [][CollectorNext]_vars

(***************************************************************************)
(* The wire codec on its own: one call of Varint.toBytes / fromBytes or of *)
(* encodeFrame / decodeFrame per behaviour, on values around the width     *)
(* boundaries, decoded at an offset of a buffer that holds other bytes     *)
(* before and after the encoding.                                          *)
(***************************************************************************)
VarintValues ==
  {0, 1, 37, 62, 63, 64, 65, 255, 256, 300, 16383, 16384, 16385, 65535, 65536,
   16777215, 16777216, 1073741823, 1073741824, 1073741825, 2147483647}

\* Bytes in front of the encoding: each would start a varint of its own.
Pads == {[k \in 1..n |-> <<192, 64, 128>>[((k - 1) % 3) + 1]] : n \in 0..MaxPad}

\* Bytes behind the encoding.
Tails == {<<>>, <<255>>, <<0, 129>>}

FrameTypes == {0, STREAM_HEADER, STREAM_DATA, FOOTER, 7, 63, 64, 16384}
FrameStreamIds == {0, 1, 63, 64, 16383, 16384, 1073741823, 1073741824}
LongPayload == [k \in 1..64 |-> (3 * k) % 256]
Payloads == {[k \in 1..n |-> (85 * k + 192) % 256] : n \in 0..MaxPayload} \cup {LongPayload}

CodecCalls ==
  {[op |-> "varint", n |-> n, pad |-> pad, tail |-> tail]
     : n \in VarintValues, pad \in Pads, tail \in Tails}
  \cup {[op |-> "frame", frame |-> [type |-> t, streamId |-> id, payload |-> pl],
         pad |-> pad, tail |-> <<>>]
     : t \in FrameTypes, id \in FrameStreamIds, pl \in Payloads, pad \in Pads}

CodecInit ==
  /\ WInit /\ entries = <<>>
  /\ RInit
  /\ ColInit
  /\ call \in CodecCalls
  /\ ret = [op |-> "none"]

\* new Varint(n).toBytes(), then Varint.fromBytes(buf, offset).
VarintCall ==
  /\ call.op = "varint"
  /\ ret.op = "none"
  /\ LET bytes == VarintToBytes(call.n)
     IN ret' = [op |-> "varint", bytes |-> bytes,
                decoded |-> VarintFromBytes(call.pad \o bytes \o call.tail, Len(call.pad))]
  /\ UNCHANGED <<call, slots, flushes, colResult, colMembers, wvars, rvars>>

\* encodeFrame(f), then decodeFrame(buf, offset).
FrameCall ==
  /\ call.op = "frame"
  /\ ret.op = "none"
  /\ LET bytes == encodeFrame(call.frame)
     IN ret' = [op |-> "frame", bytes |-> bytes,
                decoded |-> decodeFrame(call.pad \o bytes \o call.tail, Len(call.pad))]
  /\ UNCHANGED <<call, slots, flushes, colResult, colMembers, wvars, rvars>>

CodecNext == VarintCall \/ FrameCall

SpecCodec == CodecInit /\ [][CodecNext]_vars

(***************************************************************************)
(* QsfReader on a container that repeats the stream id of its entry: one   *)
(* more stream.config record, alone or followed by a STREAM_HEADER and a   *)
(* STREAM_DATA frame (and a STREAM_TRAILER) of that id, put between two    *)
(* frames of the container.  The consumer reads the outer reader and reads *)
(* or cancels the begin streams.                                           *)
(***************************************************************************)
RepeatBlocks ==
  LET id == 0      \* the id write() gave the entry
      c == ManifestFrame(ConfigRecord(id, entries[1]), id)
      h == HeaderFrame(id)
      d == DataFrame(id, <<5, 6>>)
      t == TrailerFrame(id)
  IN {c, c \o h \o d, c \o h \o d \o t}

RepeatVariants(container) ==
  {container} \cup
  {InsertAt(container, b, block) : b \in FrameBoundaries(container), block \in RepeatBlocks}

ReaderStartRepeat ==
  /\ wpc = "done"
  /\ rstate = "off"
  /\ rstate' = "run"
  /\ \E h \in 1..MaxHWM : highWaterMark' = h
  /\ decoders' = <<"CID", "ZStr">>
  /\ \E bytes \in RepeatVariants(sink) :
       /\ fed' = bytes
       /\ \E size \in {3, Len(bytes) + 1} : input' = Chunked(bytes, size)
  /\ UNCHANGED <<wvars, cvars, srcErrored, items, inputCancelled, pending, srcClosed, s1, s2, s3,
                 waiting, writables, chans, bpc, bchan, outerReading, events, detectCalls>>

RepeatNext ==
  \/ Writer
  \/ ReaderStartRepeat
  \/ Pull
  \/ Parse
  \/ Bind
  \/ BindResume
  \/ FilterEvt
  \/ ReaderClose
  \/ OuterRead
  \/ \E c \in 1..Len(chans) : ChanRead(c)
  \/ \E c \in 1..Len(chans) : ChanCancel(c)

SpecRepeat == InputInit /\ [][RepeatNext]_vars

(***************************************************************************)
(* The decoders of the wire codec on buffers that end early: an encoded    *)
(* varint, an encoded frame and a run of encoded frames, each cut at every *)
(* byte, behind zero or more bytes that are not part of it.                *)
(***************************************************************************)
MaxFrames == 2

Prefixes(bytes) == {SubSeq(bytes, 1, k) : k \in 0..Len(bytes)}

CutFrames ==
  {[type |-> t, streamId |-> id, payload |-> pl] :
     t \in {STREAM_DATA, 64, 16384}, id \in {0, 64, 16384, 1073741824},
     pl \in {[k \in 1..n |-> (85 * k + 192) % 256] : n \in 0..MaxPayload}}

RunFrames ==
  {[type |-> t, streamId |-> id, payload |-> pl] :
     t \in {STREAM_HEADER, STREAM_DATA, 64}, id \in {0, 64}, pl \in {<<>>, <<5, 6>>}}

DecodeCalls ==
  UNION {{[op |-> "varintAt", buf |-> pad \o cut, offset |-> Len(pad), whole |-> VarintToBytes(n)]
            : pad \in Pads, cut \in Prefixes(VarintToBytes(n))} : n \in VarintValues}
  \cup UNION {{[op |-> "frameAt", buf |-> pad \o cut, offset |-> Len(pad), whole |-> encodeFrame(f)]
            : pad \in Pads, cut \in Prefixes(encodeFrame(f))} : f \in CutFrames}
  \cup UNION {{[op |-> "iter", buf |-> cut, frames |-> fs]
            : cut \in Prefixes(Flatten([k \in 1..Len(fs) |-> encodeFrame(fs[k])]))}
            : fs \in UNION {[1..n -> RunFrames] : n \in 0..MaxFrames}}

DecodeInit ==
  /\ WInit /\ entries = <<>>
  /\ RInit
  /\ ColInit
  /\ call \in DecodeCalls
  /\ ret = [op |-> "none"]

\* Varint.fromBytes(buf, offset).
VarintAtCall ==
  /\ call.op = "varintAt"
  /\ ret.op = "none"
  /\ ret' = [op |-> "varintAt", decoded |-> VarintFromBytes(call.buf, call.offset)]
  /\ UNCHANGED <<call, slots, flushes, colResult, colMembers, wvars, rvars>>

\* decodeFrame(buf, offset).
FrameAtCall ==
  /\ call.op = "frameAt"
  /\ ret.op = "none"
  /\ ret' = [op |-> "frameAt", decoded |-> decodeFrame(call.buf, call.offset)]
  /\ UNCHANGED <<call, slots, flushes, colResult, colMembers, wvars, rvars>>

\* [...iterFrames(buf)].
IterCall ==
  /\ call.op = "iter"
  /\ ret.op = "none"
  /\ ret' = [op |-> "iter", yielded |-> iterFrames(call.buf)]
  /\ UNCHANGED <<call, slots, flushes, colResult, colMembers, wvars, rvars>>

DecodeNext == VarintAtCall \/ FrameAtCall \/ IterCall

SpecDecode == DecodeInit /\ [][DecodeNext]_vars

(***************************************************************************)
(* QsfReader on a container with a MANIFEST_ENTRY frame that holds no      *)
(* manifest record: bodies the serializer rejects (too short, a record tag *)
(* without stream id, an unknown tag), of different lengths, and a body    *)
(* that decodes to a record of no known type.                              *)
(***************************************************************************)
ManifestBodies == {<<7>>, <<TagConfig, 1, 0>>, <<7, 7, 7, 7>>, <<123, 125>>}

ManifestVariants(container) ==
  {InsertAt(container, b,
            encodeFrame([type |-> MANIFEST_ENTRY, streamId |-> 0, payload |-> body])) :
     b \in FrameBoundaries(container), body \in ManifestBodies}

ReaderStartManifest ==
  /\ wpc = "done"
  /\ rstate = "off"
  /\ rstate' = "run"
  /\ \E h \in 1..MaxHWM : highWaterMark' = h
  /\ decoders' = <<"CID", "ZStr">>
  /\ \E bytes \in ManifestVariants(sink) :
       /\ fed' = bytes
       /\ \E size \in InputChunkSizes(bytes) : input' = Chunked(bytes, size)
  /\ UNCHANGED <<wvars, cvars, srcErrored, items, inputCancelled, pending, srcClosed, s1, s2, s3,
                 waiting, writables, chans, bpc, bchan, outerReading, events, detectCalls>>

ManifestInit == Init /\ entries \in InputEntryLists

ManifestNext ==
  \/ Writer
  \/ ReaderStartManifest
  \/ Pull
  \/ Parse
  \/ Bind
  \/ BindResume
  \/ FilterEvt
  \/ ReaderClose
  \/ OuterRead
  \/ \E c \in 1..Len(chans) : ChanRead(c)

SpecManifest == ManifestInit /\ [][ManifestNext]_vars

(***************************************************************************)
(* QsfReader on a container with a MANIFEST_ENTRY frame whose body decodes *)
(* to a stream.config or stream.result record with a streamId `v` that is  *)
(* no hexadecimal number.                                                  *)
(***************************************************************************)
BadStreamId == [f |-> "1B", v |-> <<16>>]

RecordBodies ==
  {EndeEncode([type |-> "stream.config", streamId |-> BadStreamId, combineId |-> 0,
               filters |-> <<>>]),
   EndeEncode([type |-> "stream.result", streamId |-> BadStreamId, offset |-> 0,
               length |-> 0, filterResult |-> <<>>])}

RecordVariants(container) ==
  {InsertAt(container, b,
            encodeFrame([type |-> MANIFEST_ENTRY, streamId |-> 0, payload |-> body])) :
     b \in FrameBoundaries(container), body \in RecordBodies}

ReaderStartRecords ==
  /\ wpc = "done"
  /\ rstate = "off"
  /\ rstate' = "run"
  /\ \E h \in 1..MaxHWM : highWaterMark' = h
  /\ decoders' = <<"CID", "ZStr">>
  /\ \E bytes \in RecordVariants(sink) :
       /\ fed' = bytes
       /\ \E size \in InputChunkSizes(bytes) : input' = Chunked(bytes, size)
  /\ UNCHANGED <<wvars, cvars, srcErrored, items, inputCancelled, pending, srcClosed, s1, s2, s3,
                 waiting, writables, chans, bpc, bchan, outerReading, events, detectCalls>>

RecordsInit == Init /\ entries \in InputEntryLists

RecordsNext ==
  \/ Writer
  \/ ReaderStartRecords
  \/ Pull
  \/ Parse
  \/ Bind
  \/ BindReject
  \/ BindResume
  \/ FilterEvt
  \/ ReaderClose
  \/ OuterRead
  \/ \E c \in 1..Len(chans) : ChanRead(c)

SpecRecords == RecordsInit /\ [][RecordsNext]_vars

(***************************************************************************)
(* QsfReader on a container with the frames of a stream that has no        *)
(* stream.config record: its STREAM_HEADER, its STREAM_DATA frames and,    *)
(* or not, its STREAM_TRAILER, put between two frames of the container.    *)
(***************************************************************************)
OrphanId == 7

OrphanBlocks ==
  LET h == encodeFrame([type |-> STREAM_HEADER, streamId |-> OrphanId, payload |-> <<>>])
      d1 == encodeFrame([type |-> STREAM_DATA, streamId |-> OrphanId, payload |-> <<5, 6>>])
      d2 == encodeFrame([type |-> STREAM_DATA, streamId |-> OrphanId, payload |-> <<>>])
      t == encodeFrame([type |-> STREAM_TRAILER, streamId |-> OrphanId, payload |-> <<>>])
  IN {h \o d1 \o d2 \o t, h \o t, h \o d1}

OrphanVariants(container) ==
  {InsertAt(container, b, block) : b \in FrameBoundaries(container), block \in OrphanBlocks}

ReaderStartOrphan ==
  /\ wpc = "done"
  /\ rstate = "off"
  /\ rstate' = "run"
  /\ \E h \in 1..MaxHWM : highWaterMark' = h
  /\ decoders' = <<"CID", "ZStr">>
  /\ \E bytes \in OrphanVariants(sink) :
       /\ fed' = bytes
       /\ \E size \in InputChunkSizes(bytes) : input' = Chunked(bytes, size)
  /\ UNCHANGED <<wvars, cvars, srcErrored, items, inputCancelled, pending, srcClosed, s1, s2, s3,
                 waiting, writables, chans, bpc, bchan, outerReading, events, detectCalls>>

OrphanInit == Init /\ entries \in InputEntryLists

OrphanNext ==
  \/ Writer
  \/ ReaderStartOrphan
  \/ Pull
  \/ Parse
  \/ Bind
  \/ BindResume
  \/ FilterEvt
  \/ ReaderClose
  \/ OuterRead
  \/ \E c \in 1..Len(chans) : ChanRead(c)

SpecOrphan == OrphanInit /\ [][OrphanNext]_vars

(***************************************************************************)
(* QsfReader on a written container, as it is or followed by a block whose *)
(* stream.config record names one stream id while the MANIFEST_ENTRY frame *)
(* that carries it travels on another, with the frames of both ids behind. *)
(***************************************************************************)
RecordId == 8
CarrierId == 9

MismatchBlock ==
  encodeFrame([type |-> MANIFEST_ENTRY, streamId |-> CarrierId,
               payload |-> EndeEncode(ConfigRecord(RecordId,
                             [chunks |-> <<>>, encoders |-> <<>>, combineId |-> 0]))])
    \o HeaderFrame(CarrierId) \o TrailerFrame(CarrierId)
    \o HeaderFrame(RecordId) \o DataFrame(RecordId, <<5>>) \o TrailerFrame(RecordId)

PairingVariants(container) == {container, container \o MismatchBlock}

ReaderStartPairing ==
  /\ wpc = "done"
  /\ rstate = "off"
  /\ rstate' = "run"
  /\ \E h \in 1..MaxHWM : highWaterMark' = h
  /\ decoders' = <<"CID", "ZStr">>
  /\ \E bytes \in PairingVariants(sink) :
       /\ fed' = bytes
       /\ \E size \in {2, Len(bytes) + 1} : input' = Chunked(bytes, size)
  /\ UNCHANGED <<wvars, cvars, srcErrored, items, inputCancelled, pending, srcClosed, s1, s2, s3,
                 waiting, writables, chans, bpc, bchan, outerReading, events, detectCalls>>

PairingEntryLists ==
  {[i \in 1..n |-> [chunks |-> Source(i, 1), encoders |-> <<>>, combineId |-> 0]]
     : n \in 1..MaxEntries}
  \cup {<<[chunks |-> Source(1, 1), encoders |-> <<"CID", "ZStr">>, combineId |-> 1]>>}

PairingInit == Init /\ entries \in PairingEntryLists

PairingNext ==
  \/ Writer
  \/ ReaderStartPairing
  \/ Pull
  \/ Parse
  \/ Bind
  \/ BindResume
  \/ FilterEvt
  \/ ReaderClose
  \/ OuterRead
  \/ \E c \in 1..Len(chans) : ChanRead(c)

SpecPairing == PairingInit /\ [][PairingNext]_vars

(***************************************************************************)
(* The detect() fold on its own: a list of factories, built-in or not, in  *)
(* any order and with repeats, folded over the filters of a stream.config  *)
(* record, among them a filter no factory recognises.                      *)
(***************************************************************************)
MaxFactories == 3
MaxFilters == 2

FactoryKinds == {"CID", "ZStr", "TestEncrypt", "WatchingTestEncrypt"}

FilterConfigs ==
  {EncoderConfig("CID"), EncoderConfig("ZStr"), EncoderConfig("TestEncrypt"),
   [type |-> "Other.config", arg |-> 0]}

FoldCalls ==
  {[op |-> "fold", resolvers |-> r, filters |-> f] :
     r \in UNION {[1..n -> FactoryKinds] : n \in 0..MaxFactories},
     f \in UNION {[1..n -> FilterConfigs] : n \in 0..MaxFilters}}

FoldInit ==
  /\ WInit /\ entries = <<>>
  /\ RInit
  /\ ColInit
  /\ call \in FoldCalls
  /\ ret = [op |-> "none"]

\* evt.filters.map((input) => ({ input })): the entries before the fold.
FoldBegin ==
  /\ call.op = "fold"
  /\ ret.op = "none"
  /\ ret' = [op |-> "fold", done |-> 0,
             entries |-> [k \in 1..Len(call.filters) |->
                            [input |-> call.filters[k], instance |-> "none"]]]
  /\ UNCHANGED <<call, slots, flushes, colResult, colMembers, wvars, rvars>>

\* One turn of the loop: resolvedEntries = await resolver.detect(evt, resolvedEntries).
FoldDetect ==
  /\ call.op = "fold"
  /\ ret.op = "fold"
  /\ ret.done < Len(call.resolvers)
  /\ ret' = [op |-> "fold", done |-> ret.done + 1,
             entries |-> detect(call.resolvers[ret.done + 1], ret.entries)]
  /\ UNCHANGED <<call, slots, flushes, colResult, colMembers, wvars, rvars>>

FoldNext == FoldBegin \/ FoldDetect

SpecFold == FoldInit /\ [][FoldNext]_vars

(***************************************************************************)
(* Properties.  The container is examined as a reader finds it: the frames *)
(* iterFrames parses out of the sink's bytes.                              *)
(***************************************************************************)
IsPrefix(a, b) == Len(a) <= Len(b) /\ a = SubSeq(b, 1, Len(a))

SinkFrames == iterFrames(sink)

FramesOfId(id) == SelectSeq(SinkFrames, LAMBDA f : f.frame.streamId = id)

\* What a frame of stream id is: "stream.config" / "stream.result" for a
\* manifest entry holding that record for this id, "header", "data",
\* "trailer", or "other".
FrameKind(fr, id) ==
  IF fr.type = MANIFEST_ENTRY
  THEN LET r == EndeDecode(fr.payload)
       IN IF r.ok /\ r.value.type \in {"stream.config", "stream.result"}
             /\ VarintFromObject(r.value.streamId) = id
          THEN r.value.type ELSE "other"
  ELSE IF fr.type = STREAM_HEADER THEN "header"
  ELSE IF fr.type = STREAM_DATA THEN "data"
  ELSE IF fr.type = STREAM_TRAILER THEN "trailer"
  ELSE "other"

\* Position reached in config, header, data*, trailer, result after the
\* frames fs (0 before the config, 4 after the result, -1 out of order).
RECURSIVE OrderPhase(_, _, _)
OrderPhase(fs, id, ph) ==
  IF fs = <<>> THEN ph
  ELSE LET k == FrameKind(Head(fs).frame, id)
           nx == CASE ph = 0 /\ k = "stream.config" -> 1
                   [] ph = 1 /\ k = "header" -> 2
                   [] ph = 2 /\ k = "data" -> 2
                   [] ph = 2 /\ k = "trailer" -> 3
                   [] ph = 3 /\ k = "stream.result" -> 4
                   [] OTHER -> -1
       IN IF nx = -1 THEN -1 ELSE OrderPhase(Tail(fs), id, nx)

DataFramesOfId(id) == SelectSeq(FramesOfId(id), LAMBDA f : f.frame.type = STREAM_DATA)

\* The bytes the container stores for stream id.
DataOfId(id) ==
  Flatten([k \in 1..Len(DataFramesOfId(id)) |-> DataFramesOfId(id)[k].frame.payload])

\* C1: the sink is a sequence of whole frames, and for every stream id the
\* frames carrying it are, in this order, one MANIFEST_ENTRY with the
\* stream.config record, one STREAM_HEADER, any number of STREAM_DATA, one
\* STREAM_TRAILER and one MANIFEST_ENTRY with the stream.result record: at
\* every moment a prefix of that order, the whole of it once the entry is
\* done, and nothing for an id not assigned yet.
C1_WriterFrameOrder ==
  /\ Flatten([k \in 1..Len(SinkFrames) |-> encodeFrame(SinkFrames[k].frame)]) = sink
  /\ \A id \in 0..MaxEntries :
       LET ph == OrderPhase(FramesOfId(id), id, 0)
       IN /\ ph # -1
          /\ id < Len(results) => ph = 4
          /\ id >= nextStreamId => ph = 0

\* A finished write() of MaxEntries entries, one of them with MaxChunks data
\* frames.
C1_Witness ==
  /\ wpc = "done"
  /\ Len(entries) = MaxEntries
  /\ \E id \in 0..MaxEntries :
       Len(DataFramesOfId(id)) = MaxChunks /\ OrderPhase(FramesOfId(id), id, 0) = 4

\* C2: the frames of different entries never interleave in the sink: the
\* stream ids of the frames, in the order of the bytes, never decrease (every
\* frame of entry i precedes every frame of entry i + 1), and only ids
\* assigned so far occur.
C2_NoInterleaving ==
  /\ \A k \in 1..(Len(SinkFrames) - 1) :
       SinkFrames[k].frame.streamId <= SinkFrames[k + 1].frame.streamId
  /\ \A k \in 1..Len(SinkFrames) : SinkFrames[k].frame.streamId < nextStreamId
  /\ wpc = "done" => \A i \in 1..Len(entries) : FramesOfId(i - 1) # <<>>

\* A finished write() whose first two entries both have data frames.
C2_Witness ==
  /\ wpc = "done"
  /\ DataFramesOfId(0) # <<>>
  /\ DataFramesOfId(1) # <<>>

EventIsBegin(e) == e.type = "stream.config"
EventIsEnd(e) == e.type = "stream.result"
BeginEvents == SelectSeq(events, EventIsBegin)
EndEvents == SelectSeq(events, EventIsEnd)

\* C3: among the events delivered by the outer reader no stream id has two
\* begins or two ends, every end comes after the begin of its stream id, and
\* once the reader has closed on a container of N stream blocks there are
\* exactly N begins and N ends.
C3_BeginEndPairs ==
  /\ \A j, k \in 1..Len(BeginEvents) :
       j # k => streamIdOf(BeginEvents[j]) # streamIdOf(BeginEvents[k])
  /\ \A j, k \in 1..Len(EndEvents) :
       j # k => streamIdOf(EndEvents[j]) # streamIdOf(EndEvents[k])
  /\ \A k \in 1..Len(events) :
       EventIsEnd(events[k]) =>
         \E j \in 1..(k - 1) : /\ EventIsBegin(events[j])
                               /\ streamIdOf(events[j]) = streamIdOf(events[k])
  /\ rstate = "closed" =>
       /\ Len(BeginEvents) = Len(entries)
       /\ Len(EndEvents) = Len(entries)

\* The reader has closed on a container of MaxEntries stream blocks after
\* delivering their begins and ends.
C3_Witness ==
  /\ rstate = "closed"
  /\ Len(entries) = MaxEntries
  /\ Len(BeginEvents) = MaxEntries
  /\ Len(EndEvents) = MaxEntries

NoEncoders == \A i \in 1..Len(entries) : entries[i].encoders = <<>>

\* C4: for entries written without encoders, the k-th begin event carries
\* stream id k - 1 and the k-th channel; decode() of that channel is the
\* stream itself; what the consumer has read from it and what it still
\* buffers is a prefix of the k-th entry's source bytes; and a stream read to
\* its end has yielded exactly those bytes.
C4_RoundTrip ==
  NoEncoders =>
    /\ \A k \in 1..Len(BeginEvents) :
         BeginEvents[k].stream = k /\ streamIdOf(BeginEvents[k]) = k - 1
    /\ Len(chans) <= Len(entries)
    /\ rstate = "closed" => Len(chans) = Len(entries)
    /\ \A c \in 1..Len(chans) :
         /\ chans[c].id = c - 1
         /\ buildDecodeStream(chans[c]) = chans[c]
         /\ IsPrefix(Flatten(chans[c].delivered \o chans[c].queue), Flatten(entries[c].chunks))
         /\ (chans[c].state = "closed" /\ ~chans[c].cancelled) =>
              Flatten(chans[c].delivered) = Flatten(entries[c].chunks)

\* Two entries of MaxChunks chunks each, written without encoders, have
\* both been read to the end.
C4_Witness ==
  /\ NoEncoders
  /\ rstate = "closed"
  /\ Len(entries) = MaxEntries
  /\ Len(chans) = MaxEntries
  /\ \A c \in 1..Len(chans) :
       /\ Len(entries[c].chunks) = MaxChunks
       /\ chans[c].state = "closed"
       /\ ~chans[c].cancelled
       /\ Flatten(chans[c].delivered) = Flatten(entries[c].chunks)

\* C5: no per-stream channel ever queues more chunks than highWaterMark.
C5_QueueWithinHighWaterMark ==
  \A c \in 1..Len(chans) : Len(chans[c].queue) <= highWaterMark

\* C5, from highWaterMark 1 on: the queue stays within highWaterMark, and
\* with highWaterMark 0 within one chunk.
C5_QueueWithinOneOrHighWaterMark ==
  \A c \in 1..Len(chans) :
    Len(chans[c].queue) <= (IF highWaterMark >= 1 THEN highWaterMark ELSE 1)

\* C5, second half: while a write() waits on a full channel the binder takes
\* no further item, and the wait ends only by a read on that channel or by
\* its cancel.
C5_FullChannelBlocksBinder ==
  [][/\ bpc = "write" =>
          /\ s2' = s2 /\ waiting' = waiting /\ Len(chans') = Len(chans)
          /\ s3' = s3 \/ s3' = <<>>
          /\ bchan' = bchan
          /\ bpc' = "idle" => ~chans[bchan].readyResolve
     /\ (bpc = "write" /\ chans[bchan].readyResolve /\ ~chans'[bchan].readyResolve) =>
          \/ chans'[bchan] = read(chans[bchan])
          \/ chans'[bchan] = cancel(chans[bchan])]_vars

\* A channel opened with highWaterMark 0 holds a chunk.
C5_Witness ==
  \E c \in 1..Len(chans) : highWaterMark = 0 /\ Len(chans[c].queue) = 1

HasEndOf(id) ==
  \E k \in 1..Len(events) : EventIsEnd(events[k]) /\ streamIdOf(events[k]) = id

HasBeginOf(id) ==
  \E k \in 1..Len(events) : EventIsBegin(events[k]) /\ streamIdOf(events[k]) = id

\* The c-th stream of the container has been opened and cancelled.
CancelledStream(c) ==
  IF c <= Len(chans) THEN chans[c].cancelled /\ chans[c].id = c - 1 ELSE FALSE

\* C6: once the consumer has cancelled a begin stream (at any moment, the
\* binder's write() waiting on the full channel included), the reader goes on
\* to take every remaining byte of the input, delivers the end of the
\* cancelled stream and every later event, and closes -- unless the consumer
\* cancels the outer reader first.
C6_CancelKeepsReaderLive ==
  \A c \in 1..MaxEntries :
    (rstate = "run" /\ CancelledStream(c))
      ~> \/ rstate = "cancelled"
         \/ /\ rstate = "closed"
            /\ input = <<>> /\ pending = <<>>
            /\ HasEndOf(c - 1)
            /\ Len(BeginEvents) = Len(entries)
            /\ Len(EndEvents) = Len(entries)

\* The consumer has just cancelled the stream whose write() the binder is
\* waiting in.
C6_Witness ==
  /\ rstate = "run"
  /\ bpc = "write"
  /\ chans[bchan].cancelled
  /\ input # <<>>

\* C7: a cancel of one begin stream leaves the pending-config map, the
\* open-pipe entries of every other stream id and every other channel as they
\* are; and a stream that is not cancelled still yields its own bytes when
\* another one has been cancelled.
C7_CancelAffectsOnlyThatStream ==
  /\ [][\A c \in 1..Len(chans) :
          ChanCancel(c) =>
            /\ waiting' = waiting
            /\ \A id \in (DOMAIN writables) \ {chans[c].id} :
                 id \in DOMAIN writables' /\ writables'[id] = writables[id]
            /\ DOMAIN writables' \subseteq DOMAIN writables
            /\ Len(chans') = Len(chans)
            /\ \A d \in (1..Len(chans)) \ {c} : chans'[d] = chans[d]]_vars
  /\ [](\A c, d \in 1..Len(chans) :
          (NoEncoders /\ c # d /\ chans[c].cancelled /\ ~chans[d].cancelled) =>
            /\ IsPrefix(Flatten(chans[d].delivered \o chans[d].queue),
                        Flatten(entries[d].chunks))
            /\ chans[d].state = "closed" =>
                 Flatten(chans[d].delivered) = Flatten(entries[d].chunks))

\* One stream is cancelled; another stream, still in the open-pipe map,
\* holds a chunk in its channel.
C7_Witness ==
  \E c, d \in 1..Len(chans) :
    /\ c # d
    /\ chans[c].cancelled
    /\ chans[d].queue # <<>>
    /\ chans[d].id \in DOMAIN writables

\* C8: once the outer reader has been cancelled the byte source has been
\* cancelled, the open-pipe map is empty and no read on a begin stream is
\* left pending.
C8_OuterCancelPropagates ==
  rstate = "cancelled" =>
    /\ inputCancelled
    /\ DOMAIN writables = {}
    /\ \A c \in 1..Len(chans) : ~chans[c].readPending

\* The outer reader is cancelled, the open-pipe map still holds the stream
\* and a read of the consumer on that stream is pending, with bytes of the
\* stream left in the input that no stage will take any more.
C8_Witness ==
  /\ rstate = "cancelled"
  /\ ~inputCancelled
  /\ input # <<>>
  /\ \E c \in 1..Len(chans) : chans[c].readPending /\ chans[c].id \in DOMAIN writables

\* The i-th entry was written through an encoder for which the reader has no
\* factory.
EntryUnresolved(i) ==
  \E k \in 1..Len(entries[i].encoders) :
    \A d \in 1..Len(decoders) : decoders[d] # entries[i].encoders[k]

\* The type buildDecodeStream meets first: that of the last such encoder.
LastUnresolvedType(i) ==
  LET ks == {k \in 1..Len(entries[i].encoders) :
               \A d \in 1..Len(decoders) : decoders[d] # entries[i].encoders[k]}
      last == CHOOSE k \in ks : \A j \in ks : j <= k
  IN entries[i].encoders[last] \o ".config"

\* C9: for an entry with a filter no factory resolved, the reader is not
\* errored; a reader that has closed has delivered the begin and the end of
\* that stream; decode() never returns a stream and its failure names the
\* unresolved filter type; no chunk fails to decode; and the raw stream, as
\* long as nothing has locked it, yields the bytes the container stores for
\* the stream -- a prefix of them at any moment, all of them when read to the
\* end.
C9_UnresolvedFailsOnlyAtDecode ==
  \A i \in 1..Len(entries) :
    (rstate # "off" /\ EntryUnresolved(i)) =>
      /\ rstate # "errored"
      /\ rstate = "closed" => (HasBeginOf(i - 1) /\ HasEndOf(i - 1))
      /\ i <= Len(chans) =>
           /\ chans[i].id = i - 1
           /\ chans[i].decoded \in {"none", "unresolved"}
           /\ chans[i].decoded = "unresolved" => chans[i].unresolved = LastUnresolvedType(i)
           /\ ~chans[i].decodeError
           /\ ~chans[i].locked =>
                IsPrefix(Flatten(chans[i].delivered \o chans[i].queue), DataOfId(i - 1))
           /\ (~chans[i].locked /\ chans[i].state = "closed" /\ ~chans[i].cancelled) =>
                Flatten(chans[i].delivered) = DataOfId(i - 1)

\* decode() has failed on a stream with an unresolved filter, the consumer
\* has read the raw stream to its end and the reader has closed after the
\* stream's end event.
C9_Witness ==
  /\ rstate = "closed"
  /\ Len(chans) = 1
  /\ EntryUnresolved(1)
  /\ HasEndOf(0)
  /\ chans[1].decoded = "unresolved"
  /\ chans[1].unresolved = "TestEncrypt.config"
  /\ chans[1].state = "closed"
  /\ ~chans[1].cancelled
  /\ Len(chans[1].delivered) = MaxChunks

\* C10: a decode() that failed for an unresolved filter has left the raw
\* stream unlocked, with no decoder piped behind it and no chunk taken from
\* it.
C10_FailedDecodeLeavesStreamUntouched ==
  \A c \in 1..Len(chans) :
    chans[c].decoded = "unresolved" =>
      /\ ~chans[c].locked
      /\ chans[c].piped = 0
      /\ chans[c].pipeBuf = <<>>

\* C10, unresolved entry in the last position of the filter list: the
\* failed decode() has touched nothing.
C10_LastPositionUntouched ==
  \A c \in 1..Len(chans) :
    (/\ chans[c].decoded = "unresolved"
     /\ chans[c].entries[Len(chans[c].entries)].instance = "none") =>
      /\ ~chans[c].locked
      /\ chans[c].piped = 0
      /\ chans[c].pipeBuf = <<>>

\* decode() has failed for the unresolved first filter of the list after it
\* piped the decoder of the resolved last one: the raw stream is locked and
\* the pipe has taken a chunk from it.
C10_Witness ==
  \E c \in 1..Len(chans) :
    /\ chans[c].decoded = "unresolved"
    /\ chans[c].entries[1].instance = "none"
    /\ chans[c].entries[Len(chans[c].entries)].instance # "none"
    /\ chans[c].locked
    /\ chans[c].pipeBuf # <<>>

(***************************************************************************)
(* The input as a sequence of whole frames.                                *)
(***************************************************************************)
\* The frames that lie wholly inside buf, from offset on: header and payload.
RECURSIVE WholeFramesFrom(_, _)
WholeFramesFrom(buf, off) ==
  IF off >= Len(buf) THEN <<>>
  ELSE LET d == decodeFrame(buf, off)
       IN IF ~d.ok THEN <<>>
          ELSE IF off + d.bytesConsumed > Len(buf) THEN <<>>
          ELSE <<d.frame>> \o WholeFramesFrom(buf, off + d.bytesConsumed)

WholeFrames(buf) == WholeFramesFrom(buf, 0)

\* buf ends where a frame ends.
EndsOnFrameBoundary(buf) ==
  Len(Flatten([k \in 1..Len(WholeFrames(buf)) |-> encodeFrame(WholeFrames(buf)[k])])) = Len(buf)

ItemFrames ==
  [k \in 1..Len(items) |-> [type |-> items[k].header.type, streamId |-> items[k].header.streamId,
                            payload |-> items[k].data]]

\* C11, what the stage has emitted and how it ended: the items are the
\* whole frames of the input in order; the stage closes only on an input
\* that ends on a frame boundary and errors only on one that does not, in
\* both cases with exactly the whole frames emitted; the outer reader ends
\* as the stage did.
C11_StageOutcome ==
  rstate # "off" =>
    /\ IsPrefix(ItemFrames, WholeFrames(fed))
    /\ \A k \in 1..Len(items) : items[k].header.length = Len(items[k].data)
    /\ ~(srcClosed /\ srcErrored)
    /\ srcClosed => (EndsOnFrameBoundary(fed) /\ ItemFrames = WholeFrames(fed))
    /\ srcErrored => (~EndsOnFrameBoundary(fed) /\ ItemFrames = WholeFrames(fed))
    /\ rstate = "closed" => srcClosed
    /\ rstate = "errored" => srcErrored

\* C11: the stage ends normally only on an input that ends on a frame
\* boundary; on an input that ends inside a frame (inside a varint of the
\* header or inside the payload) it fails without an item for the cut
\* frame, and the failure reaches the consumer of the outer reader.
C11_TruncationIsFatal ==
  /\ []C11_StageOutcome
  /\ (rstate = "run" /\ ~EndsOnFrameBoundary(fed)) ~> (rstate = "errored")

\* The input was cut inside the payload of the second STREAM_DATA frame of
\* a stream: the reader has failed after the begin event was delivered and
\* the first chunk was read.
C11_Witness ==
  /\ rstate = "errored"
  /\ Len(events) = 1
  /\ Len(chans) = 1
  /\ Len(chans[1].delivered) = 1
  /\ Len(items) = 3
  /\ Len(pending) = 1

\* bytesToQRecEvt read to its end: the items of all pull() calls and how the
\* last one ended.
RECURSIVE pullAll(_)
pullAll(br) ==
  Let(pull(br), LAMBDA r :
    IF r.st # "item" THEN [items |-> <<>>, outcome |-> r.st]
    ELSE Let(pullAll(r.br), LAMBDA rest :
           [items |-> <<r.evt>> \o rest.items, outcome |-> rest.outcome]))

\* Whole-buffer ingestion of the bytes handed to the reader.
WholeBufferRun == pullAll([pending |-> <<>>, input |-> Chunked(fed, Len(fed) + 1)])

\* C12: however the byte source splits the input (byte by byte, every three
\* bytes, or not at all), the items the reader has emitted are those of the
\* whole-buffer ingestion in the same order -- same type, stream id, length
\* and payload -- and the stage ends as the whole-buffer ingestion does, by
\* a close or by an error.
C12_ChunkingIndependence ==
  rstate # "off" =>
    /\ IsPrefix(items, WholeBufferRun.items)
    /\ srcClosed => (items = WholeBufferRun.items /\ WholeBufferRun.outcome = "close")
    /\ srcErrored => (items = WholeBufferRun.items /\ WholeBufferRun.outcome = "error")

\* Three-byte chunks have cut a frame: items have been emitted, bytes of the
\* next frame wait in #pending and the source has more chunks.
C12_Witness ==
  /\ rstate = "run"
  /\ Len(items) >= 3
  /\ pending # <<>>
  /\ input # <<>>
  /\ Len(input[1]) = 3
  /\ Len(fed) > 3 * Len(input) + Len(pending)

\* The input is the written container with frames of reserved or unknown
\* types between its frames.
ReservedInserted ==
  /\ fed # sink
  /\ EndsOnFrameBoundary(fed)
  /\ SelectSeq(WholeFrames(fed), LAMBDA f : f.type \in STREAM_HEADER..MANIFEST_ENTRY)
       = WholeFrames(sink)

\* C13: with frames of type INDEX, FOOTER or of an unknown type inserted at
\* any frame boundary of a container, the reader does not fail, the consumer
\* gets the begin and end events of the container itself (begin and end of
\* each stream in container order, the end carrying the written result) and
\* nothing else, and every begin stream yields the bytes of its entry.
C13_ReservedFramesTolerated ==
  (rstate # "off" /\ ReservedInserted) =>
    /\ ~srcErrored
    /\ rstate # "errored"
    /\ \A k \in 1..Len(events) :
         IF k % 2 = 1
         THEN /\ isStreamFileBegin(events[k])
              /\ streamIdOf(events[k]) = (k - 1) \div 2
              /\ events[k].stream = (k + 1) \div 2
         ELSE /\ isStreamFileEnd(events[k])
              /\ streamIdOf(events[k]) = (k - 2) \div 2
              /\ events[k].offset = results[k \div 2].offset
              /\ events[k].length = results[k \div 2].length
    /\ rstate = "closed" => Len(events) = 2 * Len(entries)
    /\ \A c \in 1..Len(chans) :
         /\ chans[c].id = c - 1
         /\ IsPrefix(Flatten(chans[c].delivered \o chans[c].queue), Flatten(entries[c].chunks))
         /\ chans[c].state = "closed" => chans[c].delivered = entries[c].chunks

\* A container with the unknown two-byte-type frame between its two
\* STREAM_DATA frames has been read to the end, events and stream.
C13_Witness ==
  /\ ReservedInserted
  /\ rstate = "closed"
  /\ Len(events) = 2
  /\ Len(items) = 7
  /\ items[4].header.type = 64
  /\ items[3].header.type = STREAM_DATA
  /\ items[5].header.type = STREAM_DATA
  /\ chans[1].state = "closed"
  /\ chans[1].delivered = entries[1].chunks

\* Offset in the sink of the byte after the STREAM_HEADER frame of id.
HeaderEnd(id) ==
  LET hs == SelectSeq(FramesOfId(id), LAMBDA f : f.frame.type = STREAM_HEADER)
  IN hs[1].offset + Len(encodeFrame(hs[1].frame))

\* The stream.result record of id as the sink holds it.
ResultRecordInSink(id) ==
  LET rs == SelectSeq(FramesOfId(id), LAMBDA f : FrameKind(f.frame, id) = "stream.result")
  IN EndeDecode(rs[1].frame.payload).value

\* C14: for every entry done, the offset of its WriteResult is the number of
\* bytes in the sink up to the end of its STREAM_HEADER frame, which is where
\* the header of its first STREAM_DATA frame starts; the length is the sum of
\* the payload lengths of its STREAM_DATA frames; and the stream.result
\* record in the sink carries the same two values.
C14_OffsetAndLength ==
  \A i \in 1..Len(results) :
    LET r == results[i]
        data == DataFramesOfId(r.streamId)
    IN /\ r.offset = HeaderEnd(r.streamId)
       /\ data # <<>> => data[1].offset = r.offset
       /\ r.length = Len(DataOfId(r.streamId))
       /\ r.length = SumBytes([k \in 1..Len(data) |-> Len(data[k].frame.payload)])
       /\ ResultRecordInSink(r.streamId).offset = r.offset
       /\ ResultRecordInSink(r.streamId).length = r.length

\* A finished write() whose second entry has MaxChunks STREAM_DATA frames
\* with payload bytes.
C14_Witness ==
  /\ wpc = "done"
  /\ Len(results) = MaxEntries
  /\ Len(DataFramesOfId(1)) = MaxChunks
  /\ results[2].length >= MaxChunks
  /\ results[2].offset > results[1].offset + results[1].length

\* C15: the WriteResult of the i-th entry of a write() call carries the
\* zero-based index i of the entry, in every write() call on a QsfWriter.
C15_StreamIdIsEntryIndex ==
  \A i \in 1..Len(results) : results[i].streamId = i - 1

\* The ids the sink holds are the ids of the WriteResults: entry i of the
\* call has its frames and its two manifest records under results[i].streamId.
C15_ContainerIdsMatchResults ==
  \A i \in 1..Len(results) :
    LET id == results[i].streamId
        fs == FramesOfId(id)
    IN /\ fs # <<>>
       /\ FrameKind(fs[1].frame, id) = "stream.config"
       /\ FrameKind(fs[Len(fs)].frame, id) = "stream.result"
       /\ \A k \in 1..Len(fs) : FrameKind(fs[k].frame, id) # "other"

\* The counter never goes back, and the ids of one call are consecutive.
C15_IdsConsecutive ==
  \A i \in 1..Len(results) :
    results[i].streamId = results[1].streamId + i - 1 /\ results[i].streamId < nextStreamId

\* A second write() on the writer has finished: its first entry has id 1 or more.
C15_Witness ==
  /\ wpc = "done"
  /\ Len(results) = MaxEntries
  /\ results[1].streamId >= 1
  /\ sinkClosed

\* The sink is closed only by a write() that has returned, with one result per
\* entry; what it then holds ends with the stream.result frame of the last
\* entry, or is empty when there was no entry.
C16_ClosedState ==
  /\ wpc = "done" <=> sinkClosed
  /\ sinkClosed =>
       /\ Len(results) = Len(entries)
       /\ Len(sink) = offset
       /\ entries = <<>> => sink = <<>>
       /\ entries # <<>> =>
            LET last == results[Len(results)].streamId
            IN /\ SinkFrames # <<>>
               /\ FrameKind(SinkFrames[Len(SinkFrames)].frame, last) = "stream.result"
               /\ \A i \in 1..Len(results) :
                    OrderPhase(FramesOfId(results[i].streamId), results[i].streamId, 0) = 4

\* The step that closes the sink writes nothing and comes with every result
\* recorded; no step of the writer follows it.
C16_CloseStep ==
  /\ (~sinkClosed /\ sinkClosed') => (sink' = sink /\ results' = results /\ ei > Len(entries))
  /\ sinkClosed => UNCHANGED vars

\* C16: a successful write() closes the sink once, after the stream.result
\* frame of the last entry has been written, and writes nothing afterwards;
\* with an empty entry list it closes the sink after zero bytes.
C16_CloseOnceAtEnd == []C16_ClosedState /\ [][C16_CloseStep]_vars

\* The sink has been closed after MaxEntries blocks.
C16_Witness ==
  /\ sinkClosed
  /\ Len(entries) = MaxEntries
  /\ Len(results) = MaxEntries
  /\ Len(SinkFrames) >= 4 * MaxEntries

\* The sink has been closed by a write() of no entries.
C16_WitnessEmpty == sinkClosed /\ entries = <<>> /\ sink = <<>> /\ results = <<>>

\* write() has rejected while entry ei was processed: the sink holds whole
\* frames only, all the bytes flushed so far, the complete blocks of the
\* entries before ei in order, then a proper prefix of the block of entry ei,
\* and nothing of a later entry.  write() returns results only when every
\* entry is done.
C17_FailedState ==
  /\ wpc = "done" => (Len(results) = Len(entries) /\ sinkClosed)
  /\ (wpc = "failed" /\ ei <= Len(entries)) =>
       /\ ~sinkClosed
       /\ Len(sink) = offset
       /\ Flatten([k \in 1..Len(SinkFrames) |-> encodeFrame(SinkFrames[k].frame)]) = sink
       /\ Len(results) = ei - 1
       /\ \A k \in 1..(Len(SinkFrames) - 1) :
            SinkFrames[k].frame.streamId <= SinkFrames[k + 1].frame.streamId
       /\ \A id \in 0..MaxEntries :
            LET ph == OrderPhase(FramesOfId(id), id, 0)
            IN /\ id < ei - 1 => ph = 4
               /\ id = ei - 1 => ph \in 0..3
               /\ id > ei - 1 => ph = 0 /\ FramesOfId(id) = <<>>

\* C17: when the source, an encoder or a sink write fails while entry k is
\* processed, write() rejects; the sink holds the complete blocks of the
\* entries before k and a prefix of the block of k; nothing is written after
\* the failure and no WriteResult is returned.
C17_FailureStopsWriter == []C17_FailedState /\ [][wpc = "failed" => UNCHANGED vars]_vars

\* write() has rejected inside the data loop of the second entry, after one
\* of its STREAM_DATA frames.
C17_Witness ==
  /\ wpc = "failed"
  /\ ei = 2
  /\ Len(results) = 1
  /\ Len(DataFramesOfId(1)) = 1
  /\ OrderPhase(FramesOfId(1), 1, 0) = 2
  /\ Len(entries[2].chunks) = MaxChunks

\* The consumer has neither read, cancelled nor decoded the stream of channel ch.
Untouched(ch) ==
  /\ ~ch.cancelled /\ ~ch.readPending /\ ~ch.locked
  /\ ch.delivered = <<>> /\ ch.decoded = "none"

\* The consumer reads the outer reader only.
Draining == rstate \in {"run", "closed"} /\ \A c \in 1..Len(chans) : Untouched(chans[c])

\* Every stream of the container has at most n STREAM_DATA frames.
DataFramesWithin(n) == \A id \in 0..MaxEntries : Len(DataFramesOfId(id)) <= n

\* The binder is suspended in write() on a full channel.
BinderWaits == bpc = "write" /\ chans[bchan].readyResolve

\* C18: while the consumer reads the outer reader only, on a container in
\* which every stream has at most highWaterMark STREAM_DATA frames, the binder
\* is never suspended on a channel, so that the outer reader reaches its end.
C18_DrainNeverBlocks ==
  (Draining /\ DataFramesWithin(highWaterMark)) => ~BinderWaits

\* C18 with fewer than highWaterMark STREAM_DATA frames in every stream: the
\* binder is never suspended during the drain.
C18_DrainBelowHighWaterMark ==
  (Draining /\ DataFramesWithin(highWaterMark - 1)) => ~BinderWaits

\* A suspended binder keeps the outer reader from closing: the wait has to end
\* first, and only a read or a cancel of that stream ends it.
C18_BlockedReaderStaysOpen ==
  [][BinderWaits => (rstate' # "closed" /\ (~BinderWaits' => ~Untouched(chans'[bchan])))]_vars

\* After a drain that reached the end, every stream still holds all its
\* chunks and its end-of-stream.
C18_DrainedStreamsComplete ==
  (Draining /\ rstate = "closed") =>
    \A c \in 1..Len(chans) :
      /\ chans[c].state = (IF chans[c].queue = <<>> THEN "closed" ELSE "readable")
      /\ chans[c].closeRequested
      /\ chans[c].queue = [k \in 1..Len(DataFramesOfId(chans[c].id)) |->
                             DataFramesOfId(chans[c].id)[k].frame.payload]

\* highWaterMark 1 and one stream with one STREAM_DATA frame: the frame's
\* chunk is queued, the stream has not been touched, and the binder waits.
C18_Witness ==
  /\ highWaterMark = 1
  /\ Len(entries) = 1
  /\ Len(DataFramesOfId(0)) = 1
  /\ Draining
  /\ BinderWaits
  /\ Len(chans[1].queue) = 1
  /\ chans[1].queue[1] = DataFramesOfId(0)[1].frame.payload

\* A drain of streams with data has reached the end.
C18_WitnessDrained ==
  /\ Draining /\ rstate = "closed"
  /\ Len(chans) = MaxEntries
  /\ \A c \in 1..Len(chans) : Len(chans[c].queue) >= 1

\* The least of the widths 1, 2, 4, 8 whose 6, 14, 30 or 62 value bits hold n.
MinWidth(n) == IF n < 64 THEN 1 ELSE IF n < 16384 THEN 2 ELSE IF n < 1073741824 THEN 4 ELSE 8

\* C19: the varint encoding of n has the minimum width (1 byte below 64, 2
\* below 16384, 4 below 2^30, else 8), its first byte carries that width, and
\* decoding it, at offset 0 or at a later offset of a larger buffer, returns n
\* and a bytesRead equal to the width.
C19_VarintRoundTrip ==
  ret.op = "varint" =>
    /\ Len(ret.bytes) = MinWidth(call.n)
    /\ VarintWidth(ret.bytes[1]) = MinWidth(call.n)
    /\ \A k \in 1..Len(ret.bytes) : ret.bytes[k] \in 0..255
    /\ ret.decoded.ok
    /\ ret.decoded.value = call.n
    /\ ret.decoded.bytesRead = MinWidth(call.n)

\* 2^30, the first value of the 8 byte form, encoded and decoded at offset
\* MaxPad of a buffer with bytes behind it.
C19_Witness ==
  /\ ret.op = "varint"
  /\ call.n = 1073741824
  /\ Len(call.pad) = MaxPad
  /\ call.tail # <<>>
  /\ Len(ret.bytes) = 8
  /\ ret.decoded.bytesRead = 8

\* C20: decodeFrame(encodeFrame(f)) returns the type, stream id and payload
\* of f and a bytesConsumed equal to the length of the encoding; a frame with
\* an empty payload and ids below 64 takes exactly 3 bytes.
C20_FrameRoundTrip ==
  ret.op = "frame" =>
    /\ ret.decoded.ok
    /\ ret.decoded.frame.type = call.frame.type
    /\ ret.decoded.frame.streamId = call.frame.streamId
    /\ ret.decoded.frame.payload = call.frame.payload
    /\ ret.decoded.bytesConsumed = Len(ret.bytes)
    /\ (call.frame.payload = <<>> /\ call.frame.type < 64 /\ call.frame.streamId < 64)
         => Len(ret.bytes) = 3

\* A frame with a 2 byte type, an 8 byte stream id and a 2 byte length has
\* been encoded and decoded.
C20_Witness ==
  /\ ret.op = "frame"
  /\ call.frame.type = 16384
  /\ call.frame.streamId = 1073741824
  /\ call.frame.payload = LongPayload
  /\ Len(ret.bytes) = 4 + 8 + 2 + 64
  /\ ret.decoded.bytesConsumed = 78

\* A frame with an empty payload and ids below 64 has been encoded in 3 bytes.
C20_WitnessSmall ==
  /\ ret.op = "frame"
  /\ call.frame = [type |-> STREAM_HEADER, streamId |-> 1, payload |-> <<>>]
  /\ ret.bytes = <<1, 1, 0>>
  /\ ret.decoded.bytesConsumed = 3

\* The CID recorded for the stream of channel ch: the argument of the
\* CID.result in the StreamFileEnd event of its id (NoCid before the event).
RecordedCid(ch) ==
  LET ends == SelectSeq(events, LAMBDA e : EventIsEnd(e) /\ streamIdOf(e) = ch.id)
      cids == IF ends = <<>> THEN <<>>
              ELSE SelectSeq(ends[1].filterResult, LAMBDA r : r.type = "CID.result")
  IN IF cids = <<>> THEN NoCid ELSE cids[1].arg

\* C21: when the bytes decode() produced for a stream written with a CID
\* encoder hash to a CID other than the recorded one, the decoded stream
\* (read through decode() only) does not end normally: the consumer's read
\* fails.
C21_CidVerified ==
  \A c \in 1..Len(chans) :
    (/\ HasCidDecoder(chans[c])
     /\ chans[c].delivered = <<>>
     /\ chans[c].decodedEnd # "none"
     /\ RecordedCid(chans[c]) # NoCid
     /\ Cid(Flatten(chans[c].decodedOut)) # RecordedCid(chans[c]))
    => chans[c].decodedEnd = "error"

\* On the container as written the decoded bytes hash to the recorded CID
\* and the decoded stream ends normally.
C21_UntamperedEndsNormally ==
  \A c \in 1..Len(chans) :
    (fed = sink /\ chans[c].delivered = <<>> /\ chans[c].decodedEnd # "none") =>
      /\ chans[c].decodedEnd = "done"
      /\ (HasCidDecoder(chans[c]) /\ RecordedCid(chans[c]) # NoCid)
           => Cid(Flatten(chans[c].decodedOut)) = RecordedCid(chans[c])

\* A stream written through CIDEncode alone, one payload byte changed in the
\* container: decode() has delivered every chunk, the bytes hash to another
\* CID than the StreamFileEnd records, and the stream has ended normally.
C21_Witness ==
  /\ fed # sink
  /\ rstate = "closed"
  /\ Len(chans) = 1
  /\ entries[1].encoders = <<"CID">>
  /\ chans[1].delivered = <<>>
  /\ Len(chans[1].decodedOut) = MaxChunks
  /\ chans[1].hashed = Flatten(chans[1].decodedOut)
  /\ RecordedCid(chans[1]) = Cid(Flatten(entries[1].chunks))
  /\ Cid(chans[1].hashed) # RecordedCid(chans[1])
  /\ chans[1].decodedEnd = "done"

\* C22, state part: result() is rejected exactly when it was called with no
\* slot; once it has returned, every slot registered at the call has
\* flushed, and the combined CID and the list of memberCids() hold the
\* member CIDs by slot index, whatever the order of the flushes.
C22_ResultState ==
  /\ colResult.st = "rejected" => colResult.awaited = 0
  /\ colResult.st \in {"pending", "resolved"} => colResult.awaited \in 1..Len(slots)
  /\ colResult.st = "resolved" =>
       /\ \A k \in 1..colResult.awaited : slots[k].cid # NoCid
       /\ colResult.cid = CombinedCid([k \in 1..colResult.awaited |-> slots[k].cid])
  /\ colMembers.st = "resolved" =>
       /\ Len(colMembers.cids) = colMembers.awaited
       /\ \A k \in 1..colMembers.awaited :
            slots[k].cid # NoCid /\ colMembers.cids[k] = slots[k].cid

\* C22, step part: a result() called without a slot fails at once, one
\* called with slots does not; a pending result() does not return while a
\* slot it awaits has not flushed.
C22_ResultStep ==
  /\ (colResult.st = "none" /\ colResult'.st # "none") =>
       (colResult'.st = "rejected" <=> slots = <<>>)
  /\ (colResult.st = "pending" /\ colResult'.st # "pending") =>
       (colResult'.st = "resolved" /\ \A k \in 1..colResult.awaited : slots[k].cid # NoCid)
  /\ colResult.st \in {"rejected", "resolved"} => colResult' = colResult

\* C22: CIDCollector.result() fails with the empty-collector error when no
\* slot is registered; otherwise it completes only after every registered
\* slot's encoder has flushed, and the combined CID and memberCids() are
\* built from the member CIDs in slot registration order, independent of
\* the order of the flushes.
C22_CollectorResult == []C22_ResultState /\ [][C22_ResultStep]_vars

\* result() and memberCids() have returned for MaxSlots slots whose
\* encoders flushed in the reverse of the registration order, with
\* different CIDs.
C22_Witness ==
  /\ colResult.st = "resolved" /\ colResult.awaited = MaxSlots
  /\ colMembers.st = "resolved" /\ colMembers.awaited = MaxSlots
  /\ \A k \in 1..(MaxSlots - 1) :
       slots[k].at > slots[k + 1].at /\ slots[k].cid # slots[k + 1].cid
  /\ CombinedCid(MemberCidsByFlush(MaxSlots)) # colResult.cid

\* result() has failed on a collector without slots.
C22_WitnessEmpty == colResult.st = "rejected" /\ colResult.awaited = 0

\* The payloads of the STREAM_DATA frames of id in the container, one chunk
\* per frame.
DataChunksOfId(id) ==
  [k \in 1..Len(DataFramesOfId(id)) |-> DataFramesOfId(id)[k].frame.payload]

\* C23: for a bound stream k that the consumer reads directly and has not
\* cancelled, the chunks read and the chunks buffered are, in order and one
\* chunk per frame, the payloads of the STREAM_DATA frames of k that have
\* arrived; until the trailer k is in the open-pipe map; the trailer closes
\* the channel with all the payloads delivered or buffered and removes k
\* from the map, and the consumer sees the end after the last chunk.
C23_ChannelCarriesDataFrames ==
  \A c \in 1..Len(chans) :
    LET ch == chans[c]
        all == DataChunksOfId(ch.id)
        got == ch.delivered \o ch.queue
    IN (~ch.cancelled /\ ~ch.locked) =>
         /\ IsPrefix(got, all)
         /\ ~ch.closeRequested =>
              /\ ch.id \in DOMAIN writables /\ writables[ch.id] = c
              /\ ch.state = "readable"
         /\ ch.closeRequested =>
              /\ got = all
              /\ ch.id \notin DOMAIN writables
              /\ ch.state = (IF ch.queue = <<>> THEN "closed" ELSE "readable")

\* A stream of MaxChunks STREAM_DATA frames of different lengths has been
\* read to its end through a channel of highWaterMark 1: one chunk per
\* frame, then the end.
C23_Witness ==
  \E c \in 1..Len(chans) :
    /\ highWaterMark = 1
    /\ ~chans[c].locked /\ ~chans[c].cancelled
    /\ chans[c].state = "closed"
    /\ Len(chans[c].delivered) = MaxChunks
    /\ chans[c].delivered = DataChunksOfId(chans[c].id)
    /\ Len(chans[c].delivered[1]) # Len(chans[c].delivered[MaxChunks])
    /\ chans[c].id \notin DOMAIN writables

\* A cancelled stream is out of the open-pipe map, holds nothing, and the
\* reader has not failed.
C24_CancelledState ==
  /\ rstate # "errored"
  /\ \A c \in 1..Len(chans) :
       chans[c].cancelled =>
         /\ chans[c].id \notin DOMAIN writables
         /\ chans[c].state = "closed"
         /\ chans[c].queue = <<>> /\ chans[c].pipeBuf = <<>>
         /\ ~chans[c].readyResolve

\* The binder takes a STREAM_DATA or STREAM_TRAILER frame of a cancelled
\* stream without touching a channel, without waiting and without emitting
\* anything; nothing is ever delivered from a cancelled stream.
C24_CancelledStep ==
  \A c \in 1..Len(chans) :
    chans[c].cancelled =>
      /\ chans'[c].delivered = chans[c].delivered
      /\ chans'[c].decodedOut = chans[c].decodedOut
      /\ chans'[c].queue = <<>> /\ chans'[c].pipeBuf = <<>>
      /\ (/\ s2 # <<>> /\ s2' = <<>> /\ rstate' = "run"
          /\ isQRecEvt(s2[1])
          /\ s2[1].header.type \in {STREAM_DATA, STREAM_TRAILER}
          /\ s2[1].header.streamId = chans[c].id)
         => (chans' = chans /\ bpc' = "idle" /\ s3' = s3 /\ writables' = writables)

\* C24: after cancel() on the stream of begin event k, k is not in the
\* open-pipe map, every later STREAM_DATA frame of k is discarded without
\* being delivered to any consumer, and the later STREAM_TRAILER of k is
\* processed without error.
C24_CancelDrains == []C24_CancelledState /\ [][C24_CancelledStep]_vars

\* A stream of MaxChunks STREAM_DATA frames was cancelled before anything
\* was read from it, with room for one chunk at most in its channel: the
\* later frames and the trailer have been processed, the stream's end event
\* has been delivered and the reader has closed.
C24_Witness ==
  \E c \in 1..Len(chans) :
    /\ highWaterMark <= 1
    /\ chans[c].cancelled
    /\ chans[c].delivered = <<>> /\ ~chans[c].locked
    /\ Len(DataFramesOfId(chans[c].id)) = MaxChunks
    /\ HasEndOf(chans[c].id)
    /\ rstate = "closed"

\* The sink holds the STREAM_TRAILER frame of stream id.
HasTrailer(id) ==
  \E k \in 1..Len(SinkFrames) :
    SinkFrames[k].frame.type = STREAM_TRAILER /\ SinkFrames[k].frame.streamId = id

\* C25: while the writer awaits result() on the encoders of an entry, the
\* sink already holds the STREAM_TRAILER frame of the entry.
C25_TrailerBeforeResult == wpc = "result" => HasTrailer(streamId)

\* What the writer does: result() is awaited with the entry's data frames in
\* the sink and no trailer; the trailer is written once the results are in.
C25_ResultBeforeTrailer ==
  /\ wpc \in {"result", "trailer"} =>
       (~HasTrailer(streamId) /\ OrderPhase(FramesOfId(streamId), streamId, 0) = 2)
  /\ wpc = "record" => OrderPhase(FramesOfId(streamId), streamId, 0) = 3

\* A failure of result() leaves the sink as it was: without the trailer.
C25_ResultFailureLeavesNoTrailer ==
  [][(wpc = "result" /\ wpc' = "failed") => (sink' = sink /\ ~HasTrailer(streamId))]_vars

\* result() is awaited for an entry with encoders whose MaxChunks chunks
\* have all been written: the sink ends with the entry's last STREAM_DATA
\* frame.
C25_Witness ==
  /\ wpc = "result"
  /\ entries[ei].encoders = <<"CID">>
  /\ Len(DataFramesOfId(streamId)) = MaxChunks
  /\ SinkFrames[Len(SinkFrames)].frame.type = STREAM_DATA
  /\ ~HasTrailer(streamId)

\* Positions in the call log of the calls of method op, on encoder k, and
\* on any encoder.
CallsAt(op, k) == {j \in 1..Len(encCalls) : encCalls[j] = <<op, k>>}
CallsAtAny(op) == {j \in 1..Len(encCalls) : encCalls[j][1] = op}

\* C26: for the entry in progress, encode() has been called exactly once
\* on every encoder, before any config() call and before any frame of the
\* entry was written; result() is called only when the encode pipeline has
\* been read to its end, after every transform has flushed; and no CID
\* result, in the WriteResults or in the records of the sink, carries the
\* placeholder.
C26_EncoderCallOrder ==
  /\ wpc = "entry" => FramesOfId(nextStreamId) = <<>>
  /\ wpc \in {"header", "read", "data", "result", "trailer", "record"} =>
       LET n == Len(entries[ei].encoders)
       IN /\ \A k \in 1..n :
               /\ Cardinality(CallsAt("encode", k)) = 1
               /\ Cardinality(CallsAt("config", k)) = 1
               /\ Cardinality(CallsAt("result", k)) <= 1
          /\ \A a \in CallsAtAny("encode"), b \in CallsAtAny("config") : a < b
          /\ \A a \in CallsAtAny("encode") : a <= n
          /\ CallsAtAny("result") # {} =>
               /\ outChunks = <<>>
               /\ Len(DataFramesOfId(streamId))
                    = Len(EncodePipe(entries[ei].encoders, entries[ei].chunks, iv))
               /\ \A k \in 1..n : Cardinality(CallsAt("flush", k)) = 1
               /\ \A a \in CallsAtAny("flush"), b \in CallsAtAny("result") : a < b
          /\ wpc \in {"trailer", "record"} => CallsAtAny("result") = (3 * n + 1)..(4 * n)
  /\ \A i \in 1..Len(results) : \A k \in 1..Len(results[i].filterResult) :
       results[i].filterResult[k].type = "CID.result" =>
         /\ results[i].filterResult[k].arg # PlaceholderCid
         /\ results[i].filterResult[k].arg
              = Cid(Flatten(EncodePipe(SubSeq(entries[i].encoders, 1, k - 1),
                                       entries[i].chunks, iv)))
         /\ ResultRecordInSink(results[i].streamId).filterResult = results[i].filterResult

\* A finished write() of an entry of MaxChunks chunks through CID,
\* TestEncrypt and ZStr: twelve calls, the CID of the source bytes in the
\* result.
C26_Witness ==
  /\ wpc = "done"
  /\ Len(entries) = 1
  /\ entries[1].encoders = <<"CID", "TestEncrypt", "ZStr">>
  /\ Len(entries[1].chunks) = MaxChunks
  /\ Len(encCalls) = 12
  /\ encCalls[1] = <<"encode", 1>> /\ encCalls[4] = <<"config", 1>>
  /\ encCalls[7] = <<"flush", 1>> /\ encCalls[10] = <<"result", 1>>
  /\ results[1].filterResult[1] = [type |-> "CID.result", arg |-> Cid(Flatten(entries[1].chunks))]

\* The chunks a raw chunk becomes when it passes the decoders of filters
\* k, k - 1, ..., 1 of an entry list, in that order.
RECURSIVE DownFrom(_, _, _, _)
DownFrom(es, k, chunk, first) ==
  IF k = 0 THEN [ok |-> TRUE, out |-> <<chunk>>]
  ELSE LET r == DecodeStage(es[k].instance, chunk, first)
       IN IF ~r.ok THEN [ok |-> FALSE, out |-> <<>>]
          ELSE IF es[k].instance = "ZStr" /\ r.bytes = <<>> THEN [ok |-> TRUE, out |-> <<>>]
          ELSE DownFrom(es, k - 1, r.bytes, first)

\* The first of the raw chunks that a decoder of the chain rejects, one
\* past the last chunk when there is none.
FirstRejected(es, raw) ==
  LET bad == {j \in 1..Len(raw) : ~DownFrom(es, Len(es), raw[j], j = 1).ok}
  IN IF bad = {} THEN Len(raw) + 1 ELSE CHOOSE j \in bad : \A i \in bad : j <= i

\* What the chain fn, ..., f0 makes of the raw chunks before the m-th.
DecodedBefore(es, raw, m) ==
  Flatten([j \in 1..(m - 1) |-> DownFrom(es, Len(es), raw[j], j = 1).out])

\* C27: a decode() call that finds every filter resolved pipes the raw
\* stream through one decoder per filter, in reverse filter order: the
\* k-th stage of the pipe is the decoder of filter n + 1 - k, so the raw
\* bytes pass fn's decoder first and f0's last.  The chunks read from the
\* pipe are the DATA payloads of the stream passed through fn's decoder
\* down to f0's, up to the first chunk a decoder rejects; for a source of
\* one chunk that is the source itself.
C27_DecodeReverseOrder ==
  \A c \in 1..Len(chans) :
    (chans[c].decoded = "ok" /\ chans[c].entries # <<>>) =>
      LET es == chans[c].entries
          n == Len(es)
          raw == DataChunksOfId(chans[c].id)
          m == FirstRejected(es, raw)
      IN /\ chans[c].piped = n
         /\ Len(chans[c].pipe) = n
         /\ \A k \in 1..n : chans[c].pipe[k] = es[n + 1 - k]
         /\ \A k \in 1..n : es[k].input.type = entries[c].encoders[k] \o ".config"
         /\ chans[c].locked
         /\ chans[c].delivered = <<>> =>
              /\ IsPrefix(chans[c].decodedOut, DecodedBefore(es, raw, m))
              /\ chans[c].decodeError =>
                   (m <= Len(raw) /\ chans[c].decodedOut = DecodedBefore(es, raw, m))
              /\ chans[c].decodedEnd # "none" =>
                   (m = Len(raw) + 1 /\ chans[c].decodedOut = DecodedBefore(es, raw, m))
              /\ Len(entries[c].chunks) = 1 =>
                   /\ ~chans[c].decodeError
                   /\ IsPrefix(chans[c].decodedOut, entries[c].chunks)
                   /\ chans[c].decodedEnd # "none" => chans[c].decodedOut = entries[c].chunks

\* A stream written through CID, TestEncrypt and ZStr has been read to its
\* end through decode(): the pipe is ZStr, TestEncrypt, CID.
C27_Witness ==
  /\ Len(chans) = 1
  /\ entries[1].encoders = <<"CID", "TestEncrypt", "ZStr">>
  /\ Len(entries[1].chunks) = 1
  /\ chans[1].decoded = "ok"
  /\ [k \in 1..3 |-> chans[1].pipe[k].instance] = <<"ZStr", "TestEncrypt", "CID">>
  /\ chans[1].decodedEnd = "done"
  /\ Flatten(chans[1].decodedOut) = Flatten(entries[1].chunks)

\* The detect() calls made for the stream.config record of stream id.
CallsFor(id) == SelectSeq(detectCalls, LAMBDA d : d.id = id)

\* The stream ids whose stream.config record the binder has processed.
ConfigsBound == {detectCalls[j].id : j \in 1..Len(detectCalls)}

\* C28: for every stream.config record the binder has processed, detect()
\* was called exactly once on each factory, in the order built-in CID,
\* built-in ZStr, user factories; the first call was given the record's
\* filters without instance, every later call what the previous one
\* returned; the calls of one record are not interleaved with those of
\* another; the entries stored for the STREAM_HEADER, and those of the
\* stream's channel, are what the last call returned; and a reader that
\* has closed on a container of N streams has made N calls per factory.
C28_DetectFold ==
  /\ rstate # "off" => (Len(decoders) >= 2 /\ decoders[1] = "CID" /\ decoders[2] = "ZStr")
  /\ Len(detectCalls) = Len(decoders) * Cardinality(ConfigsBound)
  /\ \A j \in 1..Len(detectCalls) :
       /\ detectCalls[j].factory = ((j - 1) % Len(decoders)) + 1
       /\ detectCalls[j].factory > 1 =>
            /\ detectCalls[j].id = detectCalls[j - 1].id
            /\ detectCalls[j].given = detectCalls[j - 1].returned
       /\ detectCalls[j].factory = 1 =>
            /\ detectCalls[j].id + 1 \in 1..Len(entries)
            /\ Len(detectCalls[j].given) = Len(entries[detectCalls[j].id + 1].encoders)
            /\ \A k \in 1..Len(detectCalls[j].given) :
                 /\ detectCalls[j].given[k].instance = "none"
                 /\ detectCalls[j].given[k].input.type
                      = entries[detectCalls[j].id + 1].encoders[k] \o ".config"
  /\ \A id \in ConfigsBound :
       LET calls == CallsFor(id)
       IN /\ Len(calls) = Len(decoders)
          /\ \A k \in 1..Len(calls) : calls[k].factory = k
          /\ id \in DOMAIN waiting => waiting[id].entries = calls[Len(calls)].returned
  /\ \A c \in 1..Len(chans) :
       /\ chans[c].id \in ConfigsBound
       /\ chans[c].entries = CallsFor(chans[c].id)[Len(decoders)].returned
  /\ \A k \in 1..Len(events) :
       isStreamFileBegin(events[k]) => chans[events[k].stream].id \in ConfigsBound
  /\ rstate = "closed" =>
       \A f \in 1..Len(decoders) :
         Cardinality({j \in 1..Len(detectCalls) : detectCalls[j].factory = f}) = Len(entries)

\* The reader has closed on a container of MaxEntries streams with a user
\* factory behind the built-in ones: three calls per stream.
C28_Witness ==
  /\ rstate = "closed"
  /\ Len(entries) = MaxEntries
  /\ decoders = <<"CID", "ZStr", "TestEncrypt">>
  /\ Len(detectCalls) = 3 * MaxEntries
  /\ Len(chans) = MaxEntries

\* A stream written through CID, TestEncrypt and ZStr: each factory stamps
\* its own entry and hands on the others as it got them.
C28_WitnessStamped ==
  /\ Len(detectCalls) = 3
  /\ Len(detectCalls[1].given) = 3
  /\ [k \in 1..3 |-> detectCalls[1].returned[k].instance] = <<"CID", "none", "none">>
  /\ [k \in 1..3 |-> detectCalls[2].returned[k].instance] = <<"CID", "none", "ZStr">>
  /\ [k \in 1..3 |-> detectCalls[3].returned[k].instance] = <<"CID", "TestEncrypt", "ZStr">>
  /\ Len(chans) = 1

\* The factories among the first n of the fold that recognise a config type.
Recognisers(n, type) == {j \in 1..n : ConfigTypeOf(call.resolvers[j]) = type}

\* C29, after any number of detect() calls of a fold: the entry list has
\* the length and the order of the record's filters, and the instance of an
\* entry is the one made by the first factory in order that recognises its
\* type, none when no factory called so far recognises it.
C29_FoldState ==
  (call.op = "fold" /\ ret.op = "fold") =>
    /\ Len(ret.entries) = Len(call.filters)
    /\ \A k \in 1..Len(ret.entries) :
         LET rec == Recognisers(ret.done, call.filters[k].type)
         IN /\ ret.entries[k].input = call.filters[k]
            /\ ret.entries[k].instance
                 = IF rec = {} THEN "none"
                   ELSE call.resolvers[CHOOSE j \in rec : \A i \in rec : j <= i]

\* C29, one detect() call: an entry that has an instance, or whose config
\* type the factory does not recognise, is returned unchanged.
C29_DetectStep ==
  (call.op = "fold" /\ ret.op = "fold" /\ ret'.op = "fold" /\ ret'.done = ret.done + 1) =>
    /\ Len(ret'.entries) = Len(ret.entries)
    /\ \A k \in 1..Len(ret.entries) :
         (\/ ret.entries[k].instance # "none"
          \/ ret.entries[k].input.type # ConfigTypeOf(call.resolvers[ret'.done]))
           => ret'.entries[k] = ret.entries[k]

C29_FirstClaimWins == []C29_FoldState /\ [][C29_DetectStep]_vars

\* A fold of two factories for TestEncrypt.config and one for CID.config
\* over a TestEncrypt filter and a filter nobody recognises has run to its
\* end: the first factory's instance stays, the other entry has none.
C29_Witness ==
  /\ call.op = "fold" /\ ret.op = "fold"
  /\ call.resolvers = <<"TestEncrypt", "WatchingTestEncrypt", "CID">>
  /\ Len(call.filters) = 2
  /\ [k \in 1..2 |-> call.filters[k].type] = <<"TestEncrypt.config", "Other.config">>
  /\ ret.done = 3
  /\ [k \in 1..2 |-> ret.entries[k].instance] = <<"TestEncrypt", "none">>

\* A MANIFEST_ENTRY frame item whose body, as bytesToQRecEvt read it, the
\* serializer cannot decode.
Undecodable(e) ==
  /\ isQRecEvt(e)
  /\ e.header.type = MANIFEST_ENTRY
  /\ \E k \in 1..Len(items) : items[k].header = e.header /\ ~EndeDecode(items[k].data).ok

\* C30 as stated: the undecodable MANIFEST_ENTRY item that parseManifestEvt
\* forwards still holds header.length payload bytes for whoever reads its
\* body downstream.
C30_BodyStillReadable ==
  \A q \in {s2, s3} : \A k \in 1..Len(q) :
    Undecodable(q[k]) => Len(q[k].data) = q[k].header.length

\* What holds of C30: the reader does not abort on such a frame and the
\* consumer gets the events of the container as without it.
C30_ReaderNotAborted ==
  /\ rstate # "errored"
  /\ ~srcErrored
  /\ rstate = "closed" =>
       /\ Len(events) = 2
       /\ HasBeginOf(0) /\ HasEndOf(0)

\* What holds of C30: parseManifestEvt forwards the item itself, a frame
\* item with the header it came with.
C30_ForwardedKeepsHeader ==
  [][(s1 # <<>> /\ s2 = <<>> /\ s2' # <<>> /\ Undecodable(s1[1])) =>
       (/\ isQRecEvt(s2'[1])
        /\ s2'[1].header = s1[1].header
        /\ rstate' = "run")]_vars

\* parseManifestEvt has forwarded a MANIFEST_ENTRY item of four body bytes
\* that the serializer rejected: header.length is 4, the body is drained.
C30_Witness ==
  /\ s2 # <<>>
  /\ Undecodable(s2[1])
  /\ s2[1].header.length = 4
  /\ s2[1].data = <<>>
  /\ rstate = "run"

\* A typed manifest record, as parseManifestEvt emits it in place of the frame.
TypedRecord(e) == isStreamConfigRecord(e) \/ isStreamResultRecord(e)

\* C31 as stated: parseManifestEvt emits a typed record only when its
\* streamId is a well-formed VarintObject, so no typed record with a `v`
\* that is no hexadecimal number reaches the binder or the consumer, and
\* the reader does not fail on such a record.
C31_OnlyValidRecordsTyped ==
  /\ \A k \in 1..Len(s2) : TypedRecord(s2[k]) => ~VarintFromObjectThrows(s2[k].streamId)
  /\ \A k \in 1..Len(events) : ~VarintFromObjectThrows(events[k].streamId)
  /\ rstate # "errored"

\* What holds of C31: the byte-to-frame stage does not fail on such a
\* frame; the only failure is the binder's on the typed stream.config.
C31_OnlyBinderFails ==
  /\ ~srcErrored
  /\ rstate = "errored" =>
       \E k \in 1..Len(items) :
         /\ items[k].header.type = MANIFEST_ENTRY
         /\ EndeDecode(items[k].data).ok
         /\ isStreamConfigRecord(EndeDecode(items[k].data).value)
         /\ VarintFromObjectThrows(EndeDecode(items[k].data).value.streamId)

\* The reader has failed in the binder on a stream.config record whose
\* streamId text is no number, emitted as a typed record by the parse stage.
C31_Witness ==
  /\ rstate = "errored"
  /\ ~srcErrored
  /\ \E k \in 1..Len(items) :
       /\ items[k].header.type = MANIFEST_ENTRY
       /\ EndeDecode(items[k].data).ok
       /\ isStreamConfigRecord(EndeDecode(items[k].data).value)
       /\ VarintFromObjectThrows(EndeDecode(items[k].data).value.streamId)

\* A stream.result record whose streamId text is no number has reached the
\* consumer as a StreamFileEnd event.
C31_WitnessResult ==
  \E k \in 1..Len(events) :
    isStreamResultRecord(events[k]) /\ VarintFromObjectThrows(events[k].streamId)

\* The binder takes a frame of the stream without config.
BindsOrphan(type) ==
  /\ rstate = "run" /\ s2 # <<>> /\ s2' = <<>> /\ s3 = <<>> /\ bpc = "idle"
  /\ isQRecEvt(s2[1])
  /\ s2[1].header.type = type
  /\ s2[1].header.streamId = OrphanId

\* C32, in every state: the stream without config has no StreamFileBegin,
\* no channel, no entry in the open-pipe map, the reader has not failed,
\* and a reader that has closed has delivered begin and end of the
\* container's own stream and nothing else.
C32_OrphanState ==
  /\ rstate # "errored" /\ ~srcErrored
  /\ OrphanId \notin DOMAIN waiting
  /\ OrphanId \notin DOMAIN writables
  /\ \A c \in 1..Len(chans) : chans[c].id # OrphanId
  /\ \A k \in 1..Len(events) : streamIdOf(events[k]) # OrphanId
  /\ rstate = "closed" =>
       /\ Len(events) = 2
       /\ EventIsBegin(events[1]) /\ EventIsEnd(events[2])

\* C32, the binder's steps: the header is forwarded as it came, with
\* pending map, pipe map and channels unchanged; a STREAM_DATA frame of the
\* id is drained without a wait; its STREAM_TRAILER changes nothing.
C32_OrphanStep ==
  /\ BindsOrphan(STREAM_HEADER) =>
       /\ s3' = <<s2[1]>>
       /\ waiting' = waiting /\ writables' = writables /\ chans' = chans
  /\ BindsOrphan(STREAM_DATA) =>
       /\ s3' = <<>> /\ bpc' = "idle"
       /\ waiting' = waiting /\ writables' = writables /\ chans' = chans
  /\ BindsOrphan(STREAM_TRAILER) =>
       /\ s3' = <<>> /\ bpc' = "idle"
       /\ waiting' = waiting /\ writables' = writables /\ chans' = chans

RecordAt(k) == EndeDecode(SinkFrames[k].frame.payload).value

IsManifestAt(k) == SinkFrames[k].frame.type = MANIFEST_ENTRY

\* The frames of the block that the stream.config frame k opens: those
\* behind it, up to and including the next MANIFEST_ENTRY frame.
BlockOf(k) ==
  {j \in (k + 1)..Len(SinkFrames) :
     \A i \in (k + 1)..(j - 1) : ~IsManifestAt(i)}

\* C33, the writer: every MANIFEST_ENTRY frame of the sink travels on the
\* stream id that is the numeric value of its record's streamId, and the
\* STREAM_HEADER, STREAM_DATA and STREAM_TRAILER frames of the block a
\* stream.config opens, and the stream.result that ends it, carry that id.
C33_WriterIds ==
  \A k \in 1..Len(SinkFrames) :
    IsManifestAt(k) =>
      /\ EndeDecode(SinkFrames[k].frame.payload).ok
      /\ VarintFromObject(RecordAt(k).streamId) = SinkFrames[k].frame.streamId
      /\ isStreamConfigRecord(RecordAt(k)) =>
           \A j \in BlockOf(k) :
             /\ SinkFrames[j].frame.streamId = VarintFromObject(RecordAt(k).streamId)
             /\ SinkFrames[j].frame.type
                  \in {STREAM_HEADER, STREAM_DATA, STREAM_TRAILER, MANIFEST_ENTRY}
             /\ IsManifestAt(j) => isStreamResultRecord(RecordAt(j))

\* C33, the binder's state: a pending config is filed under the numeric
\* value of its record's streamId, whatever frame carried it.
C33_PendingKeys ==
  /\ \A id \in DOMAIN waiting : VarintFromObject(waiting[id].config.streamId) = id
  /\ CarrierId \notin DOMAIN waiting
  /\ \A c \in 1..Len(chans) : chans[c].id # CarrierId
  /\ \A k \in 1..Len(events) : streamIdOf(events[k]) # CarrierId

\* C33, the binder's step on a STREAM_HEADER: it emits a StreamFileBegin
\* exactly when a pending config's streamId value equals the header's
\* stream id, and the event is that config's.
C33_PairingStep ==
  (/\ rstate = "run" /\ s2 # <<>> /\ s2' = <<>> /\ s3 = <<>> /\ bpc = "idle"
   /\ isQRecEvt(s2[1]) /\ s2[1].header.type = STREAM_HEADER) =>
    LET h == s2[1].header.streamId
        paired == s3' # <<>> /\ isStreamFileBegin(s3'[1])
    IN /\ paired <=> (\E id \in DOMAIN waiting :
                         VarintFromObject(waiting[id].config.streamId) = h)
       /\ paired => (streamIdOf(s3'[1]) = h /\ h \notin DOMAIN waiting')
       /\ ~paired => (s3' = <<s2[1]>> /\ waiting' = waiting /\ chans' = chans)

C33_StreamIdsAgree == [](C33_WriterIds /\ C33_PendingKeys) /\ [][C33_PairingStep]_vars

\* The reader has closed on a container of MaxEntries streams followed by
\* the block with the two ids: the stream the record names has its events,
\* the stream of the carrying frame has none.
C33_Witness ==
  /\ rstate = "closed"
  /\ Len(entries) = MaxEntries
  /\ Len(events) = 2 * MaxEntries + 1
  /\ \E k \in 1..Len(events) : EventIsBegin(events[k]) /\ streamIdOf(events[k]) = RecordId
  /\ \E k \in 1..Len(items) :
       items[k].header.type = STREAM_HEADER /\ items[k].header.streamId = CarrierId

\* The width the first byte at the offset announces; with no byte at the
\* offset, the one byte any varint needs.
AnnouncedWidth(buf, at) ==
  IF at >= Len(buf) THEN 1 ELSE VarintWidth(buf[at + 1])

\* C34 as stated: Varint.fromBytes fails whenever fewer bytes remain at the
\* offset than the width the first byte announces, the 2-byte form with
\* its first byte only and an offset at the end of the buffer included.
C34_TruncationDetected ==
  (call.op = "varintAt" /\ ret.op = "varintAt") =>
    (Len(call.buf) - call.offset < AnnouncedWidth(call.buf, call.offset)
       => ~ret.decoded.ok)

\* What holds of C34: the 4-byte and 8-byte forms fail when bytes are
\* missing, and a varint that is whole is decoded to the value encoded.
C34_WideFormsFail ==
  (call.op = "varintAt" /\ ret.op = "varintAt") =>
    /\ (/\ call.offset < Len(call.buf)
        /\ AnnouncedWidth(call.buf, call.offset) >= 4
        /\ Len(call.buf) - call.offset < AnnouncedWidth(call.buf, call.offset))
         => ~ret.decoded.ok
    /\ Len(call.buf) - call.offset = Len(call.whole) =>
         (ret.decoded.ok /\ VarintToBytes(ret.decoded.value) = call.whole)

\* Varint.fromBytes on the first byte of the 2-byte encoding of 16383 has
\* returned 16128, with bytesRead 2: the missing byte was read as 0.
C34_Witness ==
  /\ call.op = "varintAt" /\ ret.op = "varintAt"
  /\ call.whole = <<127, 255>>
  /\ Len(call.buf) - call.offset = 1
  /\ ret.decoded.ok
  /\ ret.decoded.value = 16128
  /\ ret.decoded.bytesRead = 2

\* Varint.fromBytes at the end of the buffer has returned the value 0.
C34_WitnessAtEnd ==
  /\ call.op = "varintAt" /\ ret.op = "varintAt"
  /\ call.offset = Len(call.buf)
  /\ ret.decoded.ok /\ ret.decoded.value = 0 /\ ret.decoded.bytesRead = 1

\* C35 as stated: decodeFrame fails whenever the frame at the offset is cut
\* short, in a header varint or in the payload; a frame it returns has its
\* whole payload and a bytesConsumed within the bytes available.
C35_FrameTruncationDetected ==
  (call.op = "frameAt" /\ ret.op = "frameAt") =>
    /\ Len(call.buf) - call.offset < Len(call.whole) => ~ret.decoded.ok
    /\ ret.decoded.ok =>
         /\ ret.decoded.bytesConsumed <= Len(call.buf) - call.offset
         /\ Len(encodeFrame(ret.decoded.frame)) = ret.decoded.bytesConsumed

\* What holds of C35: a whole frame is decoded to the frame encoded with
\* bytesConsumed its encoded length, and a cut inside a 4-byte type varint
\* makes decodeFrame fail.
C35_WholeFrameDecoded ==
  (call.op = "frameAt" /\ ret.op = "frameAt") =>
    /\ Len(call.buf) - call.offset = Len(call.whole) =>
         /\ ret.decoded.ok
         /\ encodeFrame(ret.decoded.frame) = call.whole
         /\ ret.decoded.bytesConsumed = Len(call.whole)
    /\ (/\ VarintWidth(call.whole[1]) = 4
        /\ Len(call.buf) - call.offset \in 1..3) => ~ret.decoded.ok

\* decodeFrame on a STREAM_DATA frame of three payload bytes cut after the
\* first of them has returned a frame with a one-byte payload and a
\* bytesConsumed two bytes past the end of the buffer.
C35_Witness ==
  /\ call.op = "frameAt" /\ ret.op = "frameAt"
  /\ call.whole[1] = STREAM_DATA
  /\ Len(call.whole) = 6
  /\ Len(call.buf) - call.offset = 4
  /\ ret.decoded.ok
  /\ Len(ret.decoded.frame.payload) = 1
  /\ ret.decoded.bytesConsumed = 6

\* The encoded length of the first n frames of a run.
EncodedLength(fs, n) ==
  Len(Flatten([k \in 1..n |-> encodeFrame(fs[k])]))

\* C36: iterFrames over the concatenation of k encoded frames yields those
\* k frames in order, each at the offset that is the encoded length of the
\* frames before it, and nothing on the empty buffer; on every buffer, cut
\* ones included, each frame yielded lies at least 3 bytes behind the one
\* before it and inside the buffer, so the iteration ends.
C36_IterFrames ==
  (call.op = "iter" /\ ret.op = "iter") =>
    /\ Len(call.buf) = EncodedLength(call.frames, Len(call.frames)) =>
         /\ Len(ret.yielded) = Len(call.frames)
         /\ \A k \in 1..Len(call.frames) :
              /\ ret.yielded[k].frame = call.frames[k]
              /\ ret.yielded[k].offset = EncodedLength(call.frames, k - 1)
    /\ call.buf = <<>> => ret.yielded = <<>>
    /\ \A k \in 1..Len(ret.yielded) :
         /\ ret.yielded[k].offset < Len(call.buf)
         /\ k > 1 => ret.yielded[k].offset >= ret.yielded[k - 1].offset + 3

\* iterFrames has yielded both frames of a run of two, the second one with
\* a payload and at the offset behind the first.
C36_Witness ==
  /\ call.op = "iter" /\ ret.op = "iter"
  /\ Len(call.frames) = 2
  /\ call.frames[1].payload = <<5, 6>>
  /\ call.frames[2].streamId = 64
  /\ Len(call.buf) = EncodedLength(call.frames, 2)
  /\ Len(ret.yielded) = 2
  /\ ret.yielded[2].offset = 5

\* iterFrames on a run cut inside its second frame has ended behind the
\* frames it yielded.
C36_WitnessCut ==
  /\ call.op = "iter" /\ ret.op = "iter"
  /\ Len(call.frames) = 2
  /\ Len(call.buf) = EncodedLength(call.frames, 2) - 1
  /\ Len(ret.yielded) = 2

\* C37: with a highWaterMark of at least 1 and a consumer that keeps
\* reading the outer reader and reads or cancels every begin stream, a
\* copy suspended in write() is resumed, and only a read or a cancel of
\* that stream by the consumer resolves the wait; the reader goes on to
\* take the whole input, deliver every begin and end, and close.
C37_NoLostWakeup ==
  /\ (bpc = "write" /\ highWaterMark >= 1) ~> (bpc = "idle")
  /\ (rstate = "run" /\ highWaterMark >= 1)
       ~> /\ rstate = "closed"
          /\ input = <<>> /\ pending = <<>>
          /\ bpc = "idle"
          /\ Len(BeginEvents) = Len(entries)
          /\ Len(EndEvents) = Len(entries)
  /\ [][(/\ bpc = "write"
         /\ chans[bchan].readyResolve
         /\ ~chans'[bchan].readyResolve)
          => (ChanRead(bchan) \/ ChanCancel(bchan))]_vars

\* The copy of a STREAM_DATA frame is suspended on a channel that holds
\* highWaterMark (at least 1) chunks, with input still to come.
C37_Witness ==
  /\ rstate = "run"
  /\ highWaterMark >= 1
  /\ bpc = "write"
  /\ chans[bchan].readyResolve
  /\ Len(chans[bchan].queue) = highWaterMark
  /\ input # <<>>

\* The reader has closed after a copy was suspended and resumed: every
\* stream was read to its end with highWaterMark 1 and no cancel.
C37_WitnessClosed ==
  /\ rstate = "closed"
  /\ highWaterMark = 1
  /\ Len(entries) = MaxEntries
  /\ Len(chans) = MaxEntries
  /\ \A c \in 1..Len(chans) :
       ~chans[c].cancelled /\ Len(chans[c].delivered) = MaxChunks

\* C38 as stated: once the reader has stopped, by the end of the input or
\* by an error, every channel the binder opened is closed or has been
\* told to close behind the chunks it still holds.
C38_NoChannelLeftOpen ==
  rstate \in {"closed", "errored"} =>
    \A c \in 1..Len(chans) : chans[c].state # "readable" \/ chans[c].closeRequested

\* What holds of C38: a reader that has closed on the whole container has
\* closed every channel.
C38_WholeInputClosesChannels ==
  (rstate = "closed" /\ fed = sink) =>
    \A c \in 1..Len(chans) : chans[c].state = "closed" \/ chans[c].closeRequested

\* The input ended at a frame boundary behind a STREAM_DATA frame, the
\* reader has closed, and the consumer's read on the begin stream waits on
\* a channel that is open, empty and in no map.
C38_Witness ==
  /\ rstate = "closed"
  /\ input = <<>> /\ pending = <<>>
  /\ Len(chans) = 1
  /\ chans[1].state = "readable" /\ ~chans[1].closeRequested
  /\ chans[1].readPending
  /\ chans[1].queue = <<>>
  /\ Len(chans[1].delivered) >= 1
  /\ Len(fed) \in FrameBoundaries(sink)

\* The reader has failed on a cut frame and the channel it opened is open.
C38_WitnessErrored ==
  /\ rstate = "errored"
  /\ Len(chans) = 1
  /\ chans[1].state = "readable" /\ ~chans[1].closeRequested
  /\ chans[1].readPending

\* The channel is the one the open-pipe map holds under its stream id.
Registered(c) ==
  chans[c].id \in DOMAIN writables /\ writables[chans[c].id] = c

HeadersIn(buf) ==
  Len(SelectSeq(iterFrames(buf), LAMBDA f : f.frame.type = STREAM_HEADER))

\* C39 as stated: every channel the binder has opened is registered in the
\* open-pipe map under its stream id, closed by a trailer, or cancelled by
\* its consumer, also when the input repeats a stream id.
C39_NoOrphanedChannel ==
  \A c \in 1..Len(chans) :
    Registered(c) \/ chans[c].closeRequested \/ chans[c].cancelled

\* What holds of C39: on the container as written, where no id repeats, no
\* channel is orphaned unless the consumer cancelled one; and on every
\* input there are no more channels and no more begin events than
\* STREAM_HEADER frames, and two stream.config records ahead of one header
\* give one begin.
C39_OneBeginPerHeader ==
  /\ fed = sink => C39_NoOrphanedChannel
  /\ Len(chans) <= HeadersIn(fed)
  /\ Len(BeginEvents) <= Len(chans)

\* A second stream.config and STREAM_HEADER of the id came while its pipe
\* was open: the first channel is open, not cancelled, and the map holds
\* the second channel under the id.
C39_Witness ==
  /\ Len(chans) = 2
  /\ chans[1].id = chans[2].id
  /\ chans[1].state = "readable"
  /\ ~chans[1].closeRequested /\ ~chans[1].cancelled
  /\ ~Registered(1)
  /\ Registered(2)

\* The reader has closed on such an input and the first channel is still
\* open, with the consumer's read on it pending.
C39_WitnessClosed ==
  /\ rstate = "closed"
  /\ Len(chans) = 2
  /\ chans[1].state = "readable"
  /\ ~chans[1].closeRequested /\ ~chans[1].cancelled
  /\ chans[1].readPending
  /\ chans[2].state = "closed"

\* Two stream.config records of one id ahead of one STREAM_HEADER: the
\* reader has closed with one channel and one begin.
C39_WitnessTwoConfigs ==
  /\ rstate = "closed"
  /\ HeadersIn(fed) = 1
  /\ fed # sink
  /\ Len(chans) = 1
  /\ Len(BeginEvents) = 1

ChunksOf(c) ==
  chans[c].delivered \o chans[c].decodedOut \o chans[c].pipeBuf \o chans[c].queue

\* C40 amended: a decode() that piped `stream` into at least one decoder
\* has locked it, and no further decode() returns a stream; for an entry
\* without filters decode() returns `stream` itself and locks nothing.
\* In both cases each chunk is in one place only, so what the readers got
\* and what is still held make up a prefix of the bytes written; and once
\* `stream` is locked it stays locked and hands no chunk to a direct reader.
C40_SingleConsumerState ==
  \A c \in 1..Len(chans) :
    /\ (chans[c].returned >= 1 /\ chans[c].entries # <<>>) =>
         (chans[c].locked /\ chans[c].returned = 1)
    /\ chans[c].entries = <<>> => ~chans[c].locked
    /\ chans[c].refused >= 1 => chans[c].entries # <<>>
    /\ IsPrefix(Flatten(ChunksOf(c)), Flatten(entries[c].chunks))

C40_SingleConsumerStep ==
  \A c \in 1..Len(chans) :
    chans[c].locked =>
      /\ chans'[c].locked
      /\ chans'[c].delivered = chans[c].delivered
      /\ chans'[c].returned = chans[c].returned

C40_WitnessNoFilters ==
  /\ Len(chans) >= 1
  /\ chans[1].entries = <<>>
  /\ chans[1].returned = MaxCalls
  /\ ~chans[1].locked
  /\ Len(chans[1].delivered) = MaxChunks

====
